---- MODULE Spec2Model ----
(***************************************************************************)
(* Content-strategy pipeline (main.py), its model gateway (volcano_api.py), *)
(* response normalizer (extract_json_from_text), direction processors      *)
(* (processors/evaluation.py, processors/seeding.py) and the persistence   *)
(* adapter boundary (utils/feishu_spreadsheet.py).                         *)
(*                                                                         *)
(* Text is a sequence of tokens, a token a record [k, a]: k the lexical    *)
(* class, a the token's characters as a sequence of atoms.  The string     *)
(* literals of the source are written in ASCII; the comment beside each    *)
(* gives the source's literal.                                             *)
(***************************************************************************)
EXTENDS Integers, Sequences, FiniteSets, TLC

\* ------------------------------------------------------------------ tokens
\* k = "p"   one of { } [ ] : ,
\*     "nl"  a line break
\*     "hd"  a Markdown heading marker (three or more #)
\*     "d"   a run of digits          "bul" a run of bullet characters (- or the dot bullet)
\*     "w"   a run of other characters without any of the above
\*     "s"   a JSON string literal "..."      "q" a Python repr literal '...'
\*     "lit" one of the JSON literals null, true, false
\*     "fence" a Markdown code fence, with its language tag if any
\*     "sp"  a run of blanks
\* The characters of a literal ("s", "q") hold no brace, bracket or line break.
Tok(k, a) == [k |-> k, a |-> a]
P(c) == Tok("p", <<c>>)
NL == Tok("nl", <<"\n">>)
HD == Tok("hd", <<"###">>)
D(n) == Tok("d", <<n>>)
BUL == Tok("bul", <<"-">>)
W(x) == Tok("w", <<x>>)
S(x) == Tok("s", <<x>>)
Q(x) == Tok("q", <<x>>)
LIT(x) == Tok("lit", <<x>>)
FENCE == Tok("fence", <<"fence">>)
SP == Tok("sp", <<" ">>)
EOF == Tok("eof", <<>>)

At(t, i) == IF i >= 1 /\ i <= Len(t) THEN t[i] ELSE EOF

\* The characters of a token as they stand in the text.
Chars(tok) ==
    CASE tok.k = "s" -> <<"\"">> \o tok.a \o <<"\"">>
      [] tok.k = "q" -> <<"'">> \o tok.a \o <<"'">>
      [] OTHER -> tok.a

RECURSIVE Flatten(_)
Flatten(t) == IF t = <<>> THEN <<>> ELSE Chars(Head(t)) \o Flatten(Tail(t))

\* A Python value handed around by the pipeline: a str (its tokens) or None.
PyStr(t) == [ty |-> "str", toks |-> t]
PyNone == [ty |-> "None", toks |-> <<>>]

\* ------------------------------------------------------------- JSON values
\* One record shape for every value: t the type, s the characters of a string
\* or number, kv the entries of a dict (key k, value v) or of a list (k empty).
J(t, s, kv) == [t |-> t, s |-> s, kv |-> kv]
JNone == J("none", <<>>, <<>>)
JStr(s) == J("str", s, <<>>)
JNum(s) == J("num", s, <<>>)
JBool(s) == J("bool", s, <<>>)
JDict(kv) == J("dict", <<>>, kv)
JList(kv) == J("list", <<>>, kv)
KV(k, v) == [k |-> k, v |-> v]
Item(v) == KV(<<>>, v)
Key(x) == <<x>>

isinstance_dict(v) == v.t = "dict"
isinstance_list(v) == v.t = "list"
isinstance_str(v) == v.t = "str"

\* `key in d`
HasKey(d, k) == d.t = "dict" /\ \E i \in 1..Len(d.kv) : d.kv[i].k = k
\* d[key] for a key that is present
Get(d, k) == d.kv[CHOOSE i \in 1..Len(d.kv) : d.kv[i].k = k].v
\* d.get(key, default)
GetOr(d, k, default) == IF HasKey(d, k) THEN Get(d, k) ELSE default
\* d[key] = v: replaces the entry in place, else appends it
DictSet(kv, k, v) ==
    IF \E i \in 1..Len(kv) : kv[i].k = k
    THEN [i \in 1..Len(kv) |-> IF kv[i].k = k THEN KV(k, v) ELSE kv[i]]
    ELSE Append(kv, KV(k, v))
\* Python truthiness
Truthy(v) ==
    CASE v.t = "none" -> FALSE
      [] v.t = "str" -> v.s # <<>>
      [] v.t = "num" -> v.s # <<"0">>
      [] v.t = "bool" -> v.s = <<"true">>
      [] OTHER -> v.kv # <<>>

\* ------------------------------------------------------------- json.loads
Fail == [ok |-> FALSE, v |-> JNone, n |-> 0]
Ok(v, n) == [ok |-> TRUE, v |-> v, n |-> n]

RECURSIVE SkipWs(_, _)
SkipWs(t, i) == IF At(t, i).k \in {"nl", "sp"} THEN SkipWs(t, i + 1) ELSE i

RECURSIVE ParseValue(_, _), ParseMembers(_, _, _), ParseElements(_, _, _)
ParseValue(t, i) ==
    LET j == SkipWs(t, i)
        tok == At(t, j)
    IN CASE tok.k = "s" -> Ok(JStr(tok.a), j + 1)
         [] tok.k = "d" -> Ok(JNum(tok.a), j + 1)
         [] tok.k = "lit" -> Ok(IF tok.a = <<"null">> THEN JNone ELSE JBool(tok.a), j + 1)
         [] tok = P("{") ->
              IF At(t, SkipWs(t, j + 1)) = P("}")
              THEN Ok(JDict(<<>>), SkipWs(t, j + 1) + 1)
              ELSE ParseMembers(t, j + 1, <<>>)
         [] tok = P("[") ->
              IF At(t, SkipWs(t, j + 1)) = P("]")
              THEN Ok(JList(<<>>), SkipWs(t, j + 1) + 1)
              ELSE ParseElements(t, j + 1, <<>>)
         [] OTHER -> Fail

ParseMembers(t, i, acc) ==
    LET j == SkipWs(t, i)
        c == SkipWs(t, j + 1)
        r == ParseValue(t, c + 1)
        e == SkipWs(t, r.n)
    IN IF At(t, j).k # "s" \/ At(t, c) # P(":") THEN Fail
       ELSE IF ~r.ok THEN Fail
       ELSE IF At(t, e) = P(",") THEN ParseMembers(t, e + 1, DictSet(acc, At(t, j).a, r.v))
       ELSE IF At(t, e) = P("}") THEN Ok(JDict(DictSet(acc, At(t, j).a, r.v)), e + 1)
       ELSE Fail

ParseElements(t, i, acc) ==
    LET r == ParseValue(t, i)
        e == SkipWs(t, r.n)
    IN IF ~r.ok THEN Fail
       ELSE IF At(t, e) = P(",") THEN ParseElements(t, e + 1, Append(acc, Item(r.v)))
       ELSE IF At(t, e) = P("]") THEN Ok(JList(Append(acc, Item(r.v))), e + 1)
       ELSE Fail

\* json.loads(text): ok = FALSE stands for JSONDecodeError.
json_loads(t) ==
    LET r == ParseValue(t, 1)
    IN IF r.ok /\ SkipWs(t, r.n) = Len(t) + 1 THEN r ELSE Fail

\* ------------------------------------------------- str helpers (on characters)
IsSpace(c) == c \in {"\n", " "}

RECURSIVE lstrip(_)
lstrip(cs) == IF cs # <<>> /\ IsSpace(Head(cs)) THEN lstrip(Tail(cs)) ELSE cs
RECURSIVE rstrip(_)
rstrip(cs) ==
    IF cs # <<>> /\ IsSpace(cs[Len(cs)]) THEN rstrip(SubSeq(cs, 1, Len(cs) - 1)) ELSE cs
\* str.strip()
strip(cs) == rstrip(lstrip(cs))

\* `c in s` for a one-character c
HasChar(cs, c) == \E i \in 1..Len(cs) : cs[i] = c
FirstIndex(cs, c) == CHOOSE i \in 1..Len(cs) : cs[i] = c /\ \A j \in 1..(i - 1) : cs[j] # c

\* str.replace(c, '')
RECURSIVE RemoveChar(_, _)
RemoveChar(cs, c) ==
    IF cs = <<>> THEN <<>>
    ELSE IF Head(cs) = c THEN RemoveChar(Tail(cs), c)
    ELSE <<Head(cs)>> \o RemoveChar(Tail(cs), c)

\* The pieces of a token sequence between the tokens of class k (re.split on
\* the heading marker; the line breaks of splitlines, see splitlines below).
RECURSIVE SplitAt(_, _, _)
SplitAt(t, k, cur) ==
    IF t = <<>> THEN <<cur>>
    ELSE IF Head(t).k = k THEN <<cur>> \o SplitAt(Tail(t), k, <<>>)
    ELSE SplitAt(Tail(t), k, Append(cur, Head(t)))

\* str.splitlines(): a final line break opens no further line, '' has no line.
splitlines(t) ==
    IF t = <<>> THEN <<>>
    ELSE IF t[Len(t)].k = "nl" THEN SplitAt(SubSeq(t, 1, Len(t) - 1), "nl", <<>>)
    ELSE SplitAt(t, "nl", <<>>)

\* ------------------------------------------------- extract_json_from_text
\* re.compile(r'(\{.*\})|(\[.*\])', re.DOTALL).search(text): the leftmost
\* opener that has its closer somewhere after it, up to the last such closer.
Closer(tok) == IF tok = P("{") THEN P("}") ELSE P("]")
IsOpenAt(t, i) ==
    /\ t[i] \in {P("{"), P("[")}
    /\ \E j \in (i + 1)..Len(t) : t[j] = Closer(t[i])
json_pattern_matches(t) == \E i \in 1..Len(t) : IsOpenAt(t, i)
json_pattern_search(t) ==
    LET i == CHOOSE x \in 1..Len(t) : IsOpenAt(t, x) /\ \A y \in 1..(x - 1) : ~IsOpenAt(t, y)
        j == CHOOSE x \in (i + 1)..Len(t) :
                 /\ t[x] = Closer(t[i])
                 /\ \A y \in (x + 1)..Len(t) : t[y] # Closer(t[i])
    IN SubSeq(t, i, j)

\* Step 2: one line holding a colon gives the one-entry mapping.
IsKeyValueLine(t) == HasChar(Flatten(t), ":") /\ Len(splitlines(t)) = 1
KeyValueLine(t) ==
    LET cs == Flatten(t)
        i == FirstIndex(cs, ":")
    IN JDict(<<KV(strip(SubSeq(cs, 1, i - 1)), JStr(strip(SubSeq(cs, i + 1, Len(cs)))))>>)

\* Step 3: Markdown sections.
NonBlank(line) == strip(Flatten(line)) # <<>>
RECURSIVE NonBlankLines(_)
NonBlankLines(lines) ==
    IF lines = <<>> THEN <<>>
    ELSE IF NonBlank(Head(lines)) THEN <<Head(lines)>> \o NonBlankLines(Tail(lines))
    ELSE NonBlankLines(Tail(lines))
\* re.match(r'^[\d ...\-]+[\.\s]*(.*)$', line) on the stripped line
StripLine(line) ==
    LET RECURSIVE L(_)
        L(x) == IF x # <<>> /\ Head(x).k = "sp" THEN L(Tail(x)) ELSE x
        RECURSIVE R(_)
        R(x) == IF x # <<>> /\ x[Len(x)].k = "sp" THEN R(SubSeq(x, 1, Len(x) - 1)) ELSE x
    IN R(L(line))
IsItem(line) == StripLine(line) # <<>> /\ Head(StripLine(line)).k \in {"d", "bul"}
ItemText(line) ==
    LET RECURSIVE Marks(_)
        Marks(x) == IF x # <<>> /\ Head(x).k \in {"d", "bul"} THEN Marks(Tail(x)) ELSE x
        RECURSIVE Dots(_)
        Dots(x) == IF x # <<>> /\ (Head(x).k = "sp" \/ Head(x) = W(".")) THEN Dots(Tail(x)) ELSE x
    IN JStr(strip(Flatten(Dots(Marks(StripLine(line))))))

RECURSIVE Items(_)
Items(lines) ==
    IF lines = <<>> THEN <<>>
    ELSE IF IsItem(Head(lines)) THEN <<Item(ItemText(Head(lines)))>> \o Items(Tail(lines))
    ELSE Items(Tail(lines))

RECURSIVE Sections(_, _)
Sections(secs, result) ==
    IF secs = <<>> THEN result
    ELSE LET section_lines == NonBlankLines(splitlines(Head(secs)))
             \* the source removes the enumeration comma from the title
             section_title == strip(RemoveChar(strip(Flatten(Head(section_lines))), "dunhao"))
             section_content == Items(Tail(section_lines))
         IN IF section_lines = <<>> \/ section_content = <<>>
            THEN Sections(Tail(secs), result)
            ELSE Sections(Tail(secs), DictSet(result, section_title, JList(section_content)))

MarkdownSections(t) ==
    LET result == Sections(SplitAt(t, "hd", <<>>), <<>>)
    IN IF result # <<>> THEN JDict(result)
       ELSE JDict(<<KV(Key("raw_content"), JStr(Flatten(t)))>>)

Raised(e) == [raised |-> TRUE, exc |-> e, v |-> JNone]
Returned(v) == [raised |-> FALSE, exc |-> "", v |-> v]

\* extract_json_from_text(text).  A text that is not a str makes the pattern
\* search raise TypeError, outside every try of the function.
extract_json_from_text(text) ==
    IF text.ty # "str" THEN Raised("TypeError")
    ELSE LET t == text.toks
         IN IF json_pattern_matches(t) /\ json_loads(json_pattern_search(t)).ok
            THEN Returned(json_loads(json_pattern_search(t)).v)
            ELSE IF IsKeyValueLine(t) THEN Returned(KeyValueLine(t))
            ELSE Returned(MarkdownSections(t))

\* ------------------------------------------------------ call_volcano_api
max_retries == 3

\* One HTTP exchange as the gateway sees it: kind, and text, the body of a 400
\* answer or choices[0].message.content of a 200 answer (a str or None).
Resp(kind, text) == [kind |-> kind, text |-> text]
Http400(body) == Resp("http400", PyStr(body))
Http401 == Resp("http401", PyNone)
Http404 == Resp("http404", PyNone)
\* raise_for_status() raises ClientResponseError, a ClientError
Http5xx == Resp("http5xx", PyNone)
\* session.post raises a ClientError
ConnError == Resp("conn_error", PyNone)
\* the request times out: asyncio.TimeoutError, no ClientError
Timeout == Resp("timeout", PyNone)
OkContent(content) == Resp("ok_content", content)
\* 200 with {"choices": []}
OkEmptyChoices == Resp("ok_empty_choices", PyNone)
\* 200 with an envelope that has no "choices"
OkNoChoices == Resp("ok_no_choices", PyNone)
\* 200 whose first choice has no "message": KeyError
OkNoMessage == Resp("ok_no_message", PyNone)

IsClientError(r) == r.kind \in {"http5xx", "conn_error"}
IsOtherException(r) == r.kind \in {"timeout", "ok_no_message"}

\* str(e) of the exception an exchange ends in
StrExc(r) ==
    CASE r.kind = "http5xx" -> <<D("500"), P(","), SP, W("message=InternalServerError")>>
      [] r.kind = "conn_error" -> <<W("CannotConnectToHost")>>
      [] r.kind = "ok_no_message" -> <<Q("message")>>
      [] OTHER -> <<>>

\* str(result) of the envelope in the empty-result message
ReprEnvelope(r) ==
    IF r.kind = "ok_empty_choices"
    THEN <<P("{"), Q("choices"), P(":"), SP, P("["), P("]"), P("}")>>
    ELSE <<P("{"), Q("id"), P(":"), SP, Q("x"), P("}")>>

\* "400 CuoWu(...): " is the source's "400错误（请求格式错误）: "
Text400(body) == <<D("400"), W("CuoWu(QingQiuGeShiCuoWu)"), P(":"), SP>> \o body
\* "401错误: API密钥无效"
Text401 == <<D("401"), W("CuoWu"), P(":"), SP, W("API"), W("MiYaoWuXiao")>>
\* "404错误: API URL不正确"
Text404 == <<D("404"), W("CuoWu"), P(":"), SP, W("API"), SP, W("URL"), W("BuZhengQue")>>
\* "处理失败"
ChuLiShiBai == "ChuLiShiBai"
\* "处理失败: " + detail
TextFailed(detail) == <<W(ChuLiShiBai), P(":"), SP>> \o detail
\* "处理失败: 空结果，响应: " + str(result)
TextEmpty(r) == TextFailed(<<W("KongJieGuo.XiangYing"), P(":"), SP>> \o ReprEnvelope(r))
\* "处理失败: 超过最大重试次数"
TextExceeded == TextFailed(<<W("ChaoGuoZuiDaChongShiCiShu")>>)

ApiResult(ret, via, attempts, sleeps) ==
    [ret |-> ret, via |-> via, attempts |-> attempts, sleeps |-> sleeps]

\* Variant: the same wait after every failed attempt
BackoffFlat(attempt) == 5
\* lines 133 and 141: the wait after the failed attempt `attempt` (0-based)
Backoff(attempt) == 5 * (attempt + 1)

\* Variant: a 401 answer is retried like an exception
RaisesOr401(r) == r.kind \in {"http5xx", "conn_error", "timeout", "ok_no_message", "http401"}
\* The exchange ends in one of the two except clauses
Raises(r) == IsClientError(r) \/ IsOtherException(r)

\* The loop of call_volcano_api from attempt `attempt` (0-based) on, rs[attempt + 1]
\* being the exchange of that attempt; sleeps lists the backoff sleeps so far.
RECURSIVE ApiLoop(_, _, _)
ApiLoop(rs, attempt, sleeps) ==
    IF attempt >= max_retries
    THEN ApiResult(PyStr(TextExceeded), "exceeded", attempt, sleeps)
    ELSE LET r == rs[attempt + 1]
         IN IF Raises(r)
            THEN IF attempt < max_retries - 1
                 THEN ApiLoop(rs, attempt + 1, Append(sleeps, Backoff(attempt)))
                 ELSE ApiResult(PyStr(TextFailed(StrExc(r))), "exhausted", attempt + 1, sleeps)
            ELSE CASE r.kind = "http400" ->
                        ApiResult(PyStr(Text400(r.text.toks)), "http400", attempt + 1, sleeps)
                   [] r.kind = "http401" -> ApiResult(PyStr(Text401), "http401", attempt + 1, sleeps)
                   [] r.kind = "http404" -> ApiResult(PyStr(Text404), "http404", attempt + 1, sleeps)
                   [] r.kind = "ok_content" -> ApiResult(r.text, "content", attempt + 1, sleeps)
                   [] OTHER -> ApiResult(PyStr(TextEmpty(r)), "empty", attempt + 1, sleeps)

call_volcano_api(rs) == ApiLoop(rs, 0, <<>>)

\* ------------------------------------------------------ direction labels
\* A label is a str, its characters grouped in the atoms the keyword scan of
\* extract_direction_from_content can tell apart.
DanPinCePing == <<"DanPin", "CePing">>          \* "单品测评"
HengXiangCePing == <<"HengXiang", "CePing">>    \* "横向测评"
TongPinPaiJuZhen == <<"TongPinPaiJuZhen">>      \* "同品牌矩阵"
ZhengDaoBanDuiBi == <<"ZhengDaoBan", "DuiBi">>  \* "正盗版对比"
DanPinZhongCao == <<"DanPin", "ZhongCao">>      \* "单品种草"
KaiXiangZhongCao == <<"KaiXiang", "ZhongCao">>  \* "开箱种草"
VlogZhiRu == <<"vlog", "ZhiRu">>                \* "vlog植入"
HaoWuHeJi == <<"HaoWuHeJi">>                    \* "好物合集"
RiChangZhongCao == <<"RiChang", "ZhongCao">>    \* "日常种草"
\* "技巧型教程干货", "美食/DIY教程植入教程干货", "解决方案型教程干货"
JiQiaoXingJiaoChengGanHuo == <<"JiQiaoXing", "JiaoCheng", "GanHuo">>
MeiShiDIYJiaoChengGanHuo == <<"MeiShi/DIY", "JiaoCheng", "ZhiRu", "JiaoCheng", "GanHuo">>
JieJueFangAnXingJiaoChengGanHuo == <<"JieJueFangAnXing", "JiaoCheng", "GanHuo">>

\* str(x) inside an f-string
StrOf(v) == IF v.t = "str" THEN v.s ELSE <<"repr">>

\* What select_and_call_model decides before any await: the template pair it
\* formats and calls the model with (direction_param: the label is a format
\* argument of the user template), or the result it takes without a call.
CallModel(system, user, direction_param) ==
    [call |-> TRUE, system |-> system, user |-> user, direction_param |-> direction_param,
     result |-> PyNone]
NoCall(result) ==
    [call |-> FALSE, system |-> "", user |-> "", direction_param |-> FALSE, result |-> result]

\* ---------------------------------------------------- EvaluationProcessor
\* json.dumps({"error": f"未知的测评方向: {direction}"}, ensure_ascii=False)
EvaluationUnknown(direction) ==
    PyStr(<<P("{"), S("error"), P(":"), SP,
            Tok("s", <<"WeiZhiDeCePingFangXiang", ":", " ">> \o StrOf(direction)), P("}")>>)

\* Variant: "横向测评" shares the single-product template pair
EvaluationSelectShared(direction) ==
    IF direction \in {JStr(DanPinCePing), JStr(HengXiangCePing)}
    THEN CallModel("PROMPT_EVALUATION_SINGLE_SYSTEM", "PROMPT_EVALUATION_SINGLE_USER", FALSE)
    ELSE IF direction = JStr(TongPinPaiJuZhen)
    THEN CallModel("PROMPT_EVALUATION_MATRIX_SYSTEM", "PROMPT_EVALUATION_MATRIX_USER", FALSE)
    ELSE IF direction = JStr(ZhengDaoBanDuiBi)
    THEN CallModel("PROMPT_EVALUATION_COMPARISON_SYSTEM", "PROMPT_EVALUATION_COMPARISON_USER", FALSE)
    ELSE NoCall(EvaluationUnknown(direction))

\* Variant: a direction outside the table gets the single-product template
EvaluationSelectDefaultsToSingle(direction) ==
    CallModel("PROMPT_EVALUATION_SINGLE_SYSTEM", "PROMPT_EVALUATION_SINGLE_USER", FALSE)
EvaluationSelect(direction) ==
    CASE direction = JStr(DanPinCePing) ->
           CallModel("PROMPT_EVALUATION_SINGLE_SYSTEM", "PROMPT_EVALUATION_SINGLE_USER", FALSE)
      [] direction = JStr(HengXiangCePing) ->
           CallModel("PROMPT_EVALUATION_HORIZONTAL_SYSTEM", "PROMPT_EVALUATION_HORIZONTAL_USER", FALSE)
      [] direction = JStr(TongPinPaiJuZhen) ->
           CallModel("PROMPT_EVALUATION_MATRIX_SYSTEM", "PROMPT_EVALUATION_MATRIX_USER", FALSE)
      [] direction = JStr(ZhengDaoBanDuiBi) ->
           CallModel("PROMPT_EVALUATION_COMPARISON_SYSTEM", "PROMPT_EVALUATION_COMPARISON_USER", FALSE)
      [] OTHER -> NoCall(EvaluationUnknown(direction))

\* "分镜脚本", "shot_list", "shots", "分镜"
ShotListKeys == <<Key("FenJingJiaoBen"), Key("shot_list"), Key("shots"), Key("FenJing")>>
\* "镜号", "景别", "画面", "口播"
ShotFields == {Key("JingHao"), Key("JingBie"), Key("HuaMian"), Key("KouBo")}

\* parse_json_response without its except clause (variant)
EvaluationParseUncaught(response) ==
    IF response.ty # "str" \/ ~json_loads(response.toks).ok THEN Raised("Exception")
    ELSE Returned(json_loads(response.toks).v)

\* EvaluationProcessor.parse_json_response: only JSONDecodeError is caught, so
\* json.loads(None) raises TypeError out of it.
EvaluationParse(response) ==
    IF response.ty # "str" THEN Raised("TypeError")
    ELSE LET r == json_loads(response.toks)
             parsed == r.v
             hits == {i \in 1..Len(ShotListKeys) :
                        HasKey(parsed, ShotListKeys[i]) /\ Get(parsed, ShotListKeys[i]).t = "list"}
         IN IF ~r.ok THEN Returned(JList(<<>>))
            ELSE IF parsed.t = "list" THEN Returned(parsed)
            ELSE IF parsed.t = "dict" /\ hits # {}
                 THEN Returned(Get(parsed, ShotListKeys[CHOOSE i \in hits : \A j \in hits : i <= j]))
            ELSE IF parsed.t = "dict" /\ \E f \in ShotFields : HasKey(parsed, f)
                 THEN Returned(JList(<<Item(parsed)>>))
            ELSE Returned(JList(<<>>))

\* --------------------------------------------------------- BaseProcessor
\* re.search(r'\{.*\}', response_str, re.DOTALL)
BraceMatches(t) ==
    \E i \in 1..Len(t) : t[i] = P("{") /\ \E j \in (i + 1)..Len(t) : t[j] = P("}")
BraceSearch(t) ==
    LET i == CHOOSE x \in 1..Len(t) :
                 /\ t[x] = P("{") /\ \E j \in (x + 1)..Len(t) : t[j] = P("}")
                 /\ \A y \in 1..(x - 1) : t[y] # P("{") \/ \A j \in (y + 1)..Len(t) : t[j] # P("}")
        j == CHOOSE x \in (i + 1)..Len(t) : t[x] = P("}") /\ \A y \in (x + 1)..Len(t) : t[y] # P("}")
    IN SubSeq(t, i, j)

RawResponse(t) == JDict(<<KV(Key("raw_response"), JStr(Flatten(t)))>>)

\* BaseProcessor.parse_json_response on the text response_str
BaseParseStr(t) ==
    IF BraceMatches(t)
    THEN IF json_loads(BraceSearch(t)).ok THEN json_loads(BraceSearch(t)).v ELSE RawResponse(t)
    ELSE IF json_loads(t).ok THEN json_loads(t).v ELSE RawResponse(t)

\* ------------------------------------------------------ SeedingProcessor
\* str({"error": f"未知的种草方向: {direction}"}): the repr of the dict, which
\* BaseProcessor.parse_json_response makes of the non-str response
SeedingUnknown(direction) ==
    PyStr(<<P("{"), Q("error"), P(":"), SP,
            Tok("q", <<"WeiZhiDeZhongCaoFangXiang", ":", " ">> \o StrOf(direction)), P("}")>>)

\* Variant: the model is called whatever the label
SeedingSelectAlways(direction) ==
    CallModel("PROMPT_SEEDING_SINGLE_SYSTEM", "PROMPT_SEEDING_SINGLE_USER", FALSE)

SeedingSelect(direction) ==
    CASE direction = JStr(DanPinZhongCao) ->
           CallModel("PROMPT_SEEDING_SINGLE_SYSTEM", "PROMPT_SEEDING_SINGLE_USER", FALSE)
      [] direction = JStr(KaiXiangZhongCao) ->
           CallModel("PROMPT_SEEDING_UNBOXING_SYSTEM", "PROMPT_SEEDING_UNBOXING_USER", FALSE)
      [] direction = JStr(VlogZhiRu) ->
           CallModel("PROMPT_SEEDING_VLOG_SYSTEM", "PROMPT_SEEDING_VLOG_USER", FALSE)
      [] direction = JStr(HaoWuHeJi) ->
           CallModel("PROMPT_SEEDING_COLLECTION_SYSTEM", "PROMPT_SEEDING_COLLECTION_USER", FALSE)
      [] direction = JStr(RiChangZhongCao) ->
           CallModel("PROMPT_SEEDING_DAILY_SYSTEM", "PROMPT_SEEDING_DAILY_USER", FALSE)
      [] direction \in {JStr(JiQiaoXingJiaoChengGanHuo), JStr(MeiShiDIYJiaoChengGanHuo),
                        JStr(JieJueFangAnXingJiaoChengGanHuo)} ->
           CallModel("PROMPT_SEEDING_TUTORIAL_SYSTEM", "PROMPT_SEEDING_TUTORIAL_USER", TRUE)
      [] OTHER -> NoCall(SeedingUnknown(direction))

\* SeedingProcessor.select_and_call_model's return for the model result, or the
\* unknown-direction dict, `result`: str(None) is the text None
SeedingParse(result) ==
    IF result.ty = "str" THEN BaseParseStr(result.toks) ELSE BaseParseStr(<<W("None")>>)

\* SeedingProcessor.process
SeedingProcess(direction, result, additional_info) ==
    JDict(<<KV(Key("content_type"), JStr(<<"seeding">>)),
            KV(Key("direction"), direction),
            KV(Key("result"), SeedingParse(result)),
            KV(Key("additional_info"), additional_info)>>)

\* ------------------------------------------------- content_extractor.py
StartsWith(cs, prefix) == Len(cs) >= Len(prefix) /\ SubSeq(cs, 1, Len(prefix)) = prefix

\* extract_text_from_ppt: the slide text, or "错误：文件 '...' 不存在", or
\* "读取PPT文件时出错: ..."
PptText == <<W("brief")>>
PptMissing == <<W("CuoWu"), W(":WenJianBuCunZai")>>
PptUnreadable == <<W("DuQuPPTWenJianShiChuCuo"), P(":"), SP, W("e")>>
PptResults == {PptText, PptMissing, PptUnreadable}
\* read_text_file: the file's text or "读取文件时出错: ..."
OutlineText == <<W("outline")>>
OutlineUnreadable == <<W("DuQuWenJianShiChuCuo"), P(":"), SP, W("e")>>
OutlineResults == {OutlineText, OutlineUnreadable}

\* The final document of extract_content_from_url: page text, an empty
\* document, "请求失败，状态码: 403", "提取内容时出错: ..." or
\* "第 3 次爬取发生异常: ..."
DocPage == <<W("profile")>>
DocEmpty == <<>>
DocStatus == <<W("QingQiuShiBai"), W(".ZhuangTaiMa"), P(":"), SP, D("403")>>
DocExtractError == <<W("TiQuNeiRongShiChuCuo"), P(":"), SP, W("e")>>
DocException == <<W("Di"), SP, D("3"), SP, W("CiPaQuFaShengYiChang"), P(":"), SP, W("e")>>
ScrapeResults == {DocPage, DocEmpty, DocStatus, DocExtractError, DocException}
\* What extract_content_from_url itself retries on (its lines 61-62), or the
\* document of its exception exit
ScrapeFailed(doc) ==
    \/ strip(Flatten(doc)) = <<>>
    \/ \E p \in {<<"QingQiuShiBai">>, <<"HuoQuWangYeNeiRongShiChuCuo">>, <<"TiQuNeiRongShiChuCuo">>} :
           StartsWith(Flatten(doc), p)
    \/ doc = DocException
\* read_local_influencer_resources()["document"]
DocLocal == <<W("local")>>

\* ------------------------------------------------------------- main.py
CePingLei == JStr(<<"CePingLei">>)      \* "测评类"
ZhongCaoLei == JStr(<<"ZhongCaoLei">>)  \* "种草类"
\* config.DEFAULT_CREATOR_STYLE_DESC, "评测类"
DEFAULT_CREATOR_STYLE_DESC == JStr(<<"PingCeLei">>)
DEFAULT_ADDITIONAL_INFO == JStr(<<>>)

Unset == J("unset", <<>>, <<>>)

\* line 320: request.style_type not in ["测评类", "种草类"]
StyleTypeInvalid(style_type) == style_type \notin {CePingLei, ZhongCaoLei}

\* lines 339-341: the scrape result main.py takes for a failure
CrawlFailed(doc) ==
    \E p \in {<<"QingQiuShiBai">>, <<"HuoQuWangYeNeiRongShiChuCuo">>,
              <<"QingQiuBeiChongDingXiangDaoAnQuanYanZhengYeMian">>} :
        StartsWith(Flatten(doc), p)
\* line 350: ppt_content.startswith(("错误", "读取PPT文件时出错"))
PptFailed(ppt_content) ==
    \E p \in {<<"CuoWu">>, <<"DuQuPPTWenJianShiChuCuo">>} : StartsWith(Flatten(ppt_content), p)
\* Variant: no outline is taken for a read error
OutlineAccepted(video_outline) == FALSE
\* line 352: video_outline.startswith("读取文件时出错")
OutlineFailed(video_outline) == StartsWith(Flatten(video_outline), <<"DuQuWenJianShiChuCuo">>)

\* lines 380-384
default_creator_style(style_type) ==
    JDict(<<KV(Key("style_type"), style_type),
            KV(Key("style_analysis"), JStr(<<"ShiYongMoRenFengGe">>)),
            KV(Key("content_suggestions"), JStr(<<"TuChuChanPinHeXinMaiDian">>))>>)

\* lines 386-407, the test on one of the three results
HasErrorKeys(result) ==
    result.t = "dict" /\ (HasKey(result, Key("error")) \/ HasKey(result, Key("raw_content")))
IsFailedStr(result) == result.t = "str" /\ StartsWith(result.s, <<ChuLiShiBai>>)
ResultFailed(result) == HasErrorKeys(result) \/ IsFailedStr(result)

\* lines 410-417
ExtractStyleType(creator_style, style_type) ==
    IF creator_style.t = "dict" THEN GetOr(creator_style, Key("style_type"), style_type)
    ELSE style_type

\* extract_direction_from_content (main.py 268-301) on a normalized result
direction_fields == <<Key("direction"), Key("content_direction"), Key("ZhuTi"), Key("FangXiang")>>
summary_fields == <<Key("summary"), Key("description"), Key("NeiRongZhaiYao")>>
\* "种草", "测评", "推荐", "对比", "教程", "解析"
direction_keywords == <<"ZhongCao", "CePing", "TuiJian", "DuiBi", "JiaoCheng", "JieXi">>

FirstOf(idx) == CHOOSE i \in idx : \A j \in idx : i <= j

DictDirection(content) ==
    LET named == {i \in 1..Len(direction_fields) :
                    HasKey(content, direction_fields[i]) /\ Get(content, direction_fields[i]).t = "str"}
        \* (field, keyword) pairs in scan order: field-major
        found == {n \in 1..(Len(summary_fields) * Len(direction_keywords)) :
                    LET f == summary_fields[((n - 1) \div Len(direction_keywords)) + 1]
                        k == direction_keywords[((n - 1) % Len(direction_keywords)) + 1]
                    IN HasKey(content, f) /\ Get(content, f).t = "str" /\ HasChar(Get(content, f).s, k)}
    IN IF named # {} THEN JStr(strip(Get(content, direction_fields[FirstOf(named)]).s))
       ELSE IF found # {}
            THEN JStr(<<direction_keywords[((FirstOf(found) - 1) % Len(direction_keywords)) + 1]>>)
       ELSE JNone

RECURSIVE extract_direction_from_content(_)
extract_direction_from_content(content) ==
    IF content.t = "dict" THEN DictDirection(content)
    ELSE IF content.t = "list" /\ content.kv # <<>>
         THEN extract_direction_from_content(content.kv[1].v)
    ELSE JNone

\* lines 434-457: the direction taken from the final-strategy result
FinalDirection(final_content) ==
    LET present == {i \in 1..Len(direction_fields) : HasKey(final_content, direction_fields[i])}
        probed == IF final_content.t = "dict" /\ present # {}
                  THEN Get(final_content, direction_fields[FirstOf(present)])
                  ELSE JNone
        final_direction == IF final_content.t # "dict" THEN JNone
                           ELSE IF Truthy(probed) THEN probed
                           ELSE extract_direction_from_content(final_content)
    IN IF Truthy(final_direction) THEN final_direction ELSE JStr(<<>>)

\* ------------------------------------------------- what the model answers
Obj1(k, v) == <<P("{"), S(k), P(":"), SP, v, P("}")>>
\* selling points / content direction: a JSON object, a JSON array, prose
A_SellingPoints == Obj1("selling_points", S("p1"))
A_Array == <<P("["), S("p1"), P("]")>>
A_Prose == <<W("some"), SP, W("prose"), NL, W("more"), SP, W("prose")>>
A_ContentDirection == Obj1("summary", Tok("s", <<"TuiJian", "DuiBi">>))
\* creator style: with a style_type (either recognized value, or another), without
A_Style(x) == Obj1("style_type", Tok("s", x.s))
A_StyleOther == Obj1("style_type", S("MeiZhuangLei"))
A_StyleAbsent == Obj1("style_analysis", S("x"))
\* final strategy: a direction of either branch, a summary that holds keywords, neither
A_Direction(label) == Obj1("direction", Tok("s", label))
A_Summary == Obj1("summary", Tok("s", <<"TuiJian", "DuiBi">>))
A_NoDirection == Obj1("title", S("t"))
\* dispatch: a JSON array of shots, an object holding the shots, a flat object
Shot == <<P("{"), S("JingBie"), P(":"), SP, S("JinJing"), P(","), SP,
          S("HuaMian"), P(":"), SP, S("x"), P("}")>>
A_Shots == <<P("[")>> \o Shot \o <<P("]")>>
A_ShotsObject == <<P("{"), S("FenJingJiaoBen"), P(":"), SP, P("[")>> \o Shot \o <<P("]"), P("}")>>
\* video script
A_Script == <<P("{"), S("title"), P(":"), SP, S("t"), P(","), SP, S("text"), P(":"), SP, S("x"), P("}")>>

Sites == {"sp", "cd", "cs", "final", "dispatch", "script"}
Answers(site) ==
    CASE site = "sp" -> {A_SellingPoints, A_Array, A_Prose}
      [] site = "cd" -> {A_ContentDirection, A_Prose}
      [] site = "cs" -> {A_Style(CePingLei), A_Style(ZhongCaoLei), A_StyleOther, A_StyleAbsent, A_Prose}
      [] site = "final" -> {A_Direction(DanPinCePing), A_Direction(DanPinZhongCao), A_Summary,
                            A_NoDirection, A_Prose}
      [] site = "dispatch" -> {A_Shots, A_ShotsObject, A_Prose}
      [] OTHER -> {A_Script, A_Prose}

\* The bodies of a 400 answer: the backend's JSON error object, or plain text
Body400Json == Obj1("error", S("InvalidParameter"))
Body400Text == <<W("Bad"), SP, W("Request")>>

\* The exchanges one call_volcano_api run can see, as far as the loop reads them:
\* a last exchange that returns, after none or one that is retried, or
\* max_retries exchanges that are all retried.
Returning(site) ==
    {Http400(Body400Json), Http400(Body400Text), Http401, Http404, OkEmptyChoices, OkNoChoices,
     OkContent(PyNone)} \cup {OkContent(PyStr(a)) : a \in Answers(site)}
Retried == {ConnError, OkNoMessage}
Exchanges(site) ==
    {<<r>> : r \in Returning(site)}
      \cup {<<Http5xx, r>> : r \in {OkContent(PyStr(a)) : a \in Answers(site)}}
      \cup {<<Timeout, Http5xx, e>> : e \in Retried}

\* A call that did not end in model text
IsFault(res) == res.via # "content" \/ res.ret.ty # "str"

\* ------------------------------------------- utils/feishu_spreadsheet.py
\* What the spreadsheet backend does in one full_flow: every request succeeds,
\* or the token request of create_sheet_from_template, the template copy, the
\* metadata lookup, the token request of fill_cells_in_sheet or the cell write
\* fails. A cell write fails by an error status (httpx.HTTPStatusError) or
\* without any answer (httpx.RequestError, which has no response attribute).
FeishuBackend ==
    {"ok", "token_fails", "copy_fails", "meta_fails", "retoken_fails", "write_fails",
     "write_unreachable"}

ErrorResult(message) ==
    JDict(<<KV(Key("status"), JStr(<<"error">>)), KV(Key("message"), JStr(message))>>)

\* ---- get_tenant_access_token
ExpiryMargin == 60
DefaultExpireIn == 3600
\* The answer to the token request: code 0 with a token (or none) and an
\* expire_in (or none), a code other than 0, or an HTTP error
TokenOk(token, expire_in) == [kind |-> "ok", token |-> token, expire_in |-> expire_in]
TokenCodeError == [kind |-> "code", token |-> PyNone, expire_in |-> 0]
TokenHttpError == [kind |-> "http", token |-> PyNone, expire_in |-> 0]
Tokens == {PyStr(<<W("t1")>>), PyStr(<<W("t2")>>)}
TokenGranted == {TokenOk(t, e) : t \in Tokens \cup {PyNone}, e \in {60, 120, DefaultExpireIn}}
\* code 0 and a token with an expire_in that is no number (null, a string):
\* line 86 raises TypeError after line 84 has stored the token
TokenBadExpire == [kind |-> "bad_expire", token |-> PyStr(<<W("t2")>>), expire_in |-> 0]
TokenResponses == TokenGranted \cup {TokenCodeError, TokenHttpError, TokenBadExpire}
\* FeishuSheetManager's two cache attributes
Manager(token, expire_time) == [tenant_access_token |-> token, token_expire_time |-> expire_time]
PyTruthy(p) == p.ty = "str" /\ p.toks # <<>>
\* The test of line 61 with a margin of two minutes (variant)
CacheValidTwoMinutes(mgr, current_time) ==
    PyTruthy(mgr.tenant_access_token) /\ mgr.token_expire_time > current_time + 2 * ExpiryMargin
\* line 61
CacheValid(mgr, current_time) ==
    PyTruthy(mgr.tenant_access_token) /\ mgr.token_expire_time > current_time + ExpiryMargin
\* lines 75-98, from the answer resp to the token request on: the manager is
\* the one found when the answer arrives, current_time the call's own line 60
TokenAnswered(mgr, current_time, resp) ==
    CASE resp.kind = "http" ->
           [raised |-> TRUE, exc |-> "HTTP QingQiuShiBai", token |-> PyNone, mgr |-> mgr,
            requested |-> TRUE]
      [] resp.kind = "code" ->
           [raised |-> TRUE, exc |-> "HuoQu tenant access token ChuCuo", token |-> PyNone,
            mgr |-> mgr, requested |-> TRUE]
      [] resp.kind = "bad_expire" ->
           [raised |-> TRUE, exc |-> "HuoQu tenant access token ChuCuo", token |-> PyNone,
            mgr |-> Manager(resp.token, mgr.token_expire_time), requested |-> TRUE]
      [] OTHER ->
           [raised |-> FALSE, exc |-> "", token |-> resp.token,
            mgr |-> Manager(resp.token, current_time + resp.expire_in),
            requested |-> TRUE]
\* The call on manager mgr at time current_time, resp being the answer to the
\* token request if one is issued: what is returned or raised, the manager
\* afterwards and whether a request was issued
get_tenant_access_token(mgr, current_time, resp) ==
    IF CacheValid(mgr, current_time)
    THEN [raised |-> FALSE, exc |-> "", token |-> mgr.tenant_access_token, mgr |-> mgr,
          requested |-> FALSE]
    ELSE TokenAnswered(mgr, current_time, resp)

\* ---- create_sheet_from_template
SheetCreated ==
    JDict(<<KV(Key("status"), JStr(<<"success">>)),
            KV(Key("spreadsheet_token"), JStr(<<"tok">>)),
            KV(Key("url"), JStr(<<"https://sheet">>)),
            KV(Key("sheet_id"), JStr(<<"0">>))>>)
\* The try block: the token exception "获取tenant access token出错: ...",
\* "API请求失败 (状态码: ...)", the exception of meta_response.raise_for_status()
CreateSheetTry(backend) ==
    CASE backend = "token_fails" -> Raised("HuoQu tenant access token ChuCuo")
      [] backend = "copy_fails" -> Returned(ErrorResult(<<"API", "QingQiuShiBai">>))
      [] backend = "meta_fails" -> Raised("HTTPStatusError")
      [] OTHER -> Returned(SheetCreated)
\* except Exception: "创建表格出错: ..."
create_sheet_from_template(backend) ==
    LET r == CreateSheetTry(backend)
    IN IF r.raised THEN ErrorResult(<<"ChuangJianBiaoGeChuCuo", ":", " ", r.exc>>) ELSE r.v

\* ---- fill_cells_in_sheet: "写入失败: ..." from both except clauses; the
\* first one reads e.response, which a RequestError does not have, and the
\* AttributeError leaves the function
fill_cells_in_sheet(backend) ==
    CASE backend = "retoken_fails" ->
           Returned(ErrorResult(<<"XieRuShiBai", ":", " ", "HuoQu tenant access token ChuCuo">>))
      [] backend = "write_fails" ->
           Returned(ErrorResult(<<"XieRuShiBai", ":", " ", "HTTPStatusError">>))
      [] backend = "write_unreachable" -> Raised("AttributeError")
      [] OTHER -> Returned(JDict(<<KV(Key("status"), JStr(<<"success">>)),
                                   KV(Key("message"), JStr(<<"XieRuChengGong">>))>>))

\* ---- create_and_write: no try block of its own
create_and_write(backend) ==
    LET create_result == create_sheet_from_template(backend)
        write == fill_cells_in_sheet(backend)
    IN IF Get(create_result, Key("status")) # JStr(<<"success">>) THEN Returned(create_result)
       ELSE IF write.raised THEN write
       ELSE IF Get(write.v, Key("status")) # JStr(<<"success">>)
            THEN Returned(JDict(<<KV(Key("status"), JStr(<<"error">>)),
                         KV(Key("message"), JStr(<<"BiaoGeChuangJianChengGong.DanXieRuShuJuShiBai", ":", " ">>
                                                    \o Get(write.v, Key("message")).s)),
                         KV(Key("url"), Get(create_result, Key("url")))>>))
       ELSE Returned(JDict(<<KV(Key("status"), JStr(<<"success">>)),
                    KV(Key("message"), JStr(<<"BiaoGeChuangJianBingXieRuChengGong">>)),
                    KV(Key("spreadsheet_url"), Get(create_result, Key("url"))),
                    KV(Key("spreadsheet_token"), Get(create_result, Key("spreadsheet_token")))>>))

\* ---- FeishuSpreadsheetUtil.full_flow
\* full_flow without its except clause (variant)
FullFlowNoExcept(r) == r
\* lines 405-408, except Exception: "处理飞书表格时出错: ..."
FullFlowExcept(r) ==
    IF r.raised THEN Returned(ErrorResult(<<"ChuLiFeiShuBiaoGeShiChuCuo", ":", " ", r.exc>>))
    ELSE r
\* What the call comes to: a returned result or an exception
FullFlowOutcome(backend) == FullFlowExcept(create_and_write(backend))
full_flow(backend) == FullFlowOutcome(backend).v

\* ---------------------------------------------- generate_content_strategy
MaxFaults == 1

VARIABLES
    pc,                   \* the stage the run is in
    request,              \* ProcessingRequest
    ppt_content, url_content, video_outline, is_crawl_success,
    task,                 \* the three coroutines handed to asyncio.gather
    selling_points, content_direction, creator_style,
    extracted_style_type, final_content, final_direction,
    final_result, shot_list, video_script, sheet_result,
    response,             \* what the caller gets
    via,                  \* per call site, the return statement call_volcano_api left by
    calls,                \* per call site, the number of call_volcano_api invocations
    dispatched,           \* what the direction processor did in this run
    script_args,          \* the arguments of process_video_script
    faults,               \* the calls so far that did not end in model text
    unit,                 \* a function called on its own: its arguments and what it returned
    tenant_access_token, token_expire_time,   \* FeishuSheetManager's token cache
    now,                  \* time.time()
    token_requests,       \* the token requests issued so far
    flows,                \* the calls of full_flow so far
    callers               \* the coroutines inside get_tenant_access_token of one manager

\* the variables of one run of generate_content_strategy
run_vars == <<pc, request, ppt_content, url_content, video_outline, is_crawl_success, task,
          selling_points, content_direction, creator_style, extracted_style_type,
          final_content, final_direction, final_result, shot_list, video_script,
          sheet_result, response, via, calls, dispatched, script_args, faults>>
\* the variables of the parts exercised on their own
mgr_vars == <<tenant_access_token, token_expire_time, now, token_requests, flows>>
unit_vars == <<unit, mgr_vars, callers>>
vars == <<run_vars, unit_vars>>

Tasks == {"sp", "cd", "cs"}

NoExc == [type |-> "", status_code |-> 0]
HTTPException(status_code) == [type |-> "HTTPException", status_code |-> status_code]
TypeError == [type |-> "TypeError", status_code |-> 0]
NoResponse == [kind |-> "none", status_code |-> 0, cause |-> NoExc, body |-> JNone]
\* lines 576-578: whatever the try block raises, an HTTPException raised in
\* it included, leaves as HTTPException(status_code=500)
Handler(e) == [kind |-> "raise", status_code |-> 500, cause |-> e, body |-> JNone]
Return(body) == [kind |-> "return", status_code |-> 200, cause |-> NoExc, body |-> body]

NoDispatch ==
    [branch |-> "", direction |-> JNone, call |-> FALSE, system |-> "", user |-> "",
     direction_param |-> FALSE, raw |-> PyNone, raised |-> FALSE, result |-> Unset]

Requests ==
    [style_type : {CePingLei, ZhongCaoLei, DEFAULT_CREATOR_STYLE_DESC},
     use_local_influencer : BOOLEAN,
     additional_info : {JStr(<<"info">>)}]

NoUnit == [fn |-> "", args |-> <<>>, ret |-> <<>>]

\* The coroutines that call get_tenant_access_token of the one manager, each
\* outside a call, suspended at the await of line 74, or returned / raised
Callers == {"a", "b"}
Outside ==
    [at |-> "outside", current_time |-> 0, resp |-> TokenCodeError, token |-> PyNone,
     raised |-> FALSE]

\* Nothing read, called or computed yet
Fresh ==
    /\ ppt_content = <<>> /\ url_content = <<>> /\ video_outline = <<>>
    /\ is_crawl_success = TRUE
    /\ task = [b \in Tasks |-> [st |-> "none", v |-> JNone]]
    /\ selling_points = Unset /\ content_direction = Unset /\ creator_style = Unset
    /\ extracted_style_type = Unset /\ final_content = Unset /\ final_direction = Unset
    /\ final_result = Unset /\ shot_list = Unset /\ video_script = Unset
    /\ sheet_result = Unset
    /\ response = NoResponse
    /\ via = [c \in Sites |-> ""]
    /\ calls = [c \in Sites |-> 0]
    /\ dispatched = NoDispatch
    /\ script_args = Unset
    /\ faults = 0
    /\ unit = NoUnit
    /\ tenant_access_token = PyNone
    /\ token_expire_time = 0
    /\ now = 0
    /\ token_requests = 0
    /\ flows = 0
    /\ callers = [c \in Callers |-> Outside]

Init ==
    /\ pc = "Received"
    /\ request \in Requests
    /\ Fresh

\* One call_volcano_api invocation at call site c over the exchanges rs
Counted(c, rs) ==
    /\ via' = [via EXCEPT ![c] = call_volcano_api(rs).via]
    /\ calls' = [calls EXCEPT ![c] = @ + 1]
\* the same, in a run of the pipeline: at most MaxFaults calls of a run fail
Invoke(c, rs) ==
    /\ IsFault(call_volcano_api(rs)) => faults < MaxFaults
    /\ faults' = faults + (IF IsFault(call_volcano_api(rs)) THEN 1 ELSE 0)
    /\ Counted(c, rs)

\* line 320-321
ValidateStyle ==
    /\ pc = "Received"
    /\ IF StyleTypeInvalid(request.style_type)
       THEN pc' = "Rejected" /\ response' = Handler(HTTPException(400))
       ELSE pc' = "Acquiring" /\ UNCHANGED response
    /\ UNCHANGED <<unit_vars, request, ppt_content, url_content, video_outline, is_crawl_success, task,
                   selling_points, content_direction, creator_style, extracted_style_type,
                   final_content, final_direction, final_result, shot_list, video_script,
                   sheet_result, via, calls, dispatched, script_args, faults>>

\* lines 323-375: the three reads, the two checks, and the three coroutines
\* handed to asyncio.gather
Acquire ==
    /\ pc = "Acquiring"
    /\ \E ppt \in PptResults, doc \in {DocPage, DocStatus, DocEmpty}, outline \in OutlineResults :
          LET local == request.use_local_influencer \/ CrawlFailed(doc)
          IN /\ ppt_content' = ppt
             /\ video_outline' = outline
             /\ url_content' = IF local THEN DocLocal ELSE doc
             /\ is_crawl_success' = ~local
             /\ IF PptFailed(ppt) \/ OutlineFailed(outline)
                THEN /\ pc' = "Rejected"
                     /\ response' = Handler(HTTPException(400))
                     /\ UNCHANGED task
                ELSE /\ pc' = "ParallelAnalysis"
                     /\ task' = [b \in Tasks |-> [st |-> "pending", v |-> JNone]]
                     /\ UNCHANGED response
    /\ UNCHANGED <<unit_vars, request, selling_points, content_direction, creator_style,
                   extracted_style_type, final_content, final_direction, final_result,
                   shot_list, video_script, sheet_result, via, calls, dispatched,
                   script_args, faults>>

\* process_selling_points / process_content_direction / process_creator_style:
\* the model call and the normalization of its answer
TaskResolve(b) ==
    /\ task[b].st = "pending"
    /\ \E rs \in Exchanges(b) :
          LET n == extract_json_from_text(call_volcano_api(rs).ret)
          IN /\ Invoke(b, rs)
             /\ task' = [task EXCEPT ![b] = IF n.raised THEN [st |-> "raised", v |-> JNone]
                                            ELSE [st |-> "done", v |-> n.v]]
    /\ UNCHANGED <<unit_vars, pc, request, ppt_content, url_content, video_outline, is_crawl_success,
                   selling_points, content_direction, creator_style, extracted_style_type,
                   final_content, final_direction, final_result, shot_list, video_script,
                   sheet_result, response, dispatched, script_args>>

\* asyncio.gather without return_exceptions: the first exception of a task is
\* raised in the awaiting handler at once; the other tasks are not cancelled
GatherRaises(t) == \E b \in Tasks : t[b].st = "raised"
\* Variant: gather returns with the first task that is done
GatherReturnsFirst(t) == \E b \in Tasks : t[b].st = "done"
GatherReturns(t) == \A b \in Tasks : t[b].st = "done"

GatherRaise ==
    /\ pc = "ParallelAnalysis"
    /\ GatherRaises(task)
    /\ pc' = "Failed"
    /\ response' = Handler(TypeError)
    /\ UNCHANGED <<unit_vars, request, ppt_content, url_content, video_outline, is_crawl_success, task,
                   selling_points, content_direction, creator_style, extracted_style_type,
                   final_content, final_direction, final_result, shot_list, video_script,
                   sheet_result, via, calls, dispatched, script_args, faults>>

\* lines 373-407: gather returns the three results; the check of each
Join ==
    /\ pc = "ParallelAnalysis"
    /\ GatherReturns(task)
    /\ selling_points' = task["sp"].v
    /\ content_direction' = task["cd"].v
    /\ IF ResultFailed(task["sp"].v) \/ ResultFailed(task["cd"].v)
       THEN /\ pc' = "Failed"
            /\ response' = Handler(HTTPException(500))
            /\ creator_style' = task["cs"].v
       ELSE /\ pc' = "StyleResolved"
            /\ creator_style' = IF ResultFailed(task["cs"].v)
                                THEN default_creator_style(request.style_type)
                                ELSE task["cs"].v
            /\ UNCHANGED response
    /\ UNCHANGED <<unit_vars, request, ppt_content, url_content, video_outline, is_crawl_success, task,
                   extracted_style_type, final_content, final_direction, final_result,
                   shot_list, video_script, sheet_result, via, calls, dispatched,
                   script_args, faults>>
\* lines 409-424: the style type of the resolved creator style; the initial
\* direction is only logged
ResolveStyle ==
    /\ pc = "StyleResolved"
    /\ extracted_style_type' = ExtractStyleType(creator_style, request.style_type)
    /\ pc' = "FinalStrategy"
    /\ UNCHANGED <<unit_vars, request, ppt_content, url_content, video_outline, is_crawl_success, task,
                   selling_points, content_direction, creator_style, final_content,
                   final_direction, final_result, shot_list, video_script, sheet_result,
                   response, via, calls, dispatched, script_args, faults>>

\* lines 426-457: process_final_content and the direction probe
FinalStrategy ==
    /\ pc = "FinalStrategy"
    /\ \E rs \in Exchanges("final") :
          LET n == extract_json_from_text(call_volcano_api(rs).ret)
          IN /\ Invoke("final", rs)
             /\ IF n.raised
                THEN /\ pc' = "Failed"
                     /\ response' = Handler(TypeError)
                     /\ UNCHANGED <<final_content, final_direction>>
                ELSE /\ pc' = "DirectionDispatch"
                     /\ final_content' = n.v
                     /\ final_direction' = FinalDirection(n.v)
                     /\ UNCHANGED response
    /\ UNCHANGED <<unit_vars, request, ppt_content, url_content, video_outline, is_crawl_success, task,
                   selling_points, content_direction, creator_style, extracted_style_type,
                   final_result, shot_list, video_script, sheet_result, dispatched,
                   script_args>>

\* line 462: request.additional_info or DEFAULT_ADDITIONAL_INFO
AdditionalInfo(req) ==
    IF Truthy(req.additional_info) THEN req.additional_info ELSE DEFAULT_ADDITIONAL_INFO

\* The exchanges of a processor call: those of one gateway call when the label
\* selects a template pair, none otherwise
ProcessorExchanges(sel) == IF sel.call THEN Exchanges("dispatch") ELSE {<<>>}
\* select_and_call_model's result before it is parsed
Selected(sel, rs) == IF sel.call THEN call_volcano_api(rs).ret ELSE sel.result
ProcessorRun(branch, direction, sel, raw, out) ==
    [branch |-> branch, direction |-> direction, call |-> sel.call, system |-> sel.system,
     user |-> sel.user, direction_param |-> sel.direction_param, raw |-> raw, raised |-> out.raised, result |-> out.v]

\* create_processor("seeding", ...) and SeedingProcessor.process(inputs)
SeedingRun(direction, rs, additional_info) ==
    LET sel == SeedingSelect(direction)
    IN ProcessorRun("seeding", direction, sel, Selected(sel, rs),
                    Returned(SeedingProcess(direction, Selected(sel, rs), additional_info)))

\* create_processor("evaluation", ...) and EvaluationProcessor.process(inputs)
EvaluationRun(direction, rs) ==
    LET sel == EvaluationSelect(direction)
    IN ProcessorRun("evaluation", direction, sel, Selected(sel, rs),
                    EvaluationParse(Selected(sel, rs)))

\* lines 459-481: style_type == "种草类"
DispatchSeeding ==
    /\ pc = "DirectionDispatch"
    /\ extracted_style_type = ZhongCaoLei
    /\ \E rs \in ProcessorExchanges(SeedingSelect(final_direction)) :
          LET run == SeedingRun(final_direction, rs, AdditionalInfo(request))
          IN /\ IF run.call THEN Invoke("dispatch", rs) ELSE UNCHANGED <<faults, via, calls>>
             /\ final_result' = run.result
             /\ shot_list' = JList(<<>>)
             /\ dispatched' = run
    /\ pc' = "ScriptGeneration"
    /\ UNCHANGED <<unit_vars, request, ppt_content, url_content, video_outline, is_crawl_success, task,
                   selling_points, content_direction, creator_style, extracted_style_type,
                   final_content, final_direction, video_script, sheet_result, response,
                   script_args>>

\* lines 459-466, 482-502: style_type == "测评类".  final_result keeps the
\* None of line 463.
DispatchEvaluation ==
    /\ pc = "DirectionDispatch"
    /\ extracted_style_type = CePingLei
    /\ \E rs \in ProcessorExchanges(EvaluationSelect(final_direction)) :
          LET run == EvaluationRun(final_direction, rs)
          IN /\ IF run.call THEN Invoke("dispatch", rs) ELSE UNCHANGED <<faults, via, calls>>
             /\ final_result' = JNone
             /\ dispatched' = run
             /\ IF run.raised
                THEN /\ pc' = "Failed"
                     /\ response' = Handler(TypeError)
                     /\ shot_list' = JList(<<>>)
                ELSE /\ pc' = "ScriptGeneration"
                     /\ shot_list' = run.result
                     /\ UNCHANGED response
    /\ UNCHANGED <<unit_vars, request, ppt_content, url_content, video_outline, is_crawl_success, task,
                   selling_points, content_direction, creator_style, extracted_style_type,
                   final_content, final_direction, video_script, sheet_result, script_args>>

\* lines 459-466 with neither test of 467 and 482 true: no processor runs
DispatchNone ==
    /\ pc = "DirectionDispatch"
    /\ extracted_style_type \notin {ZhongCaoLei, CePingLei}
    /\ final_result' = JNone
    /\ shot_list' = JList(<<>>)
    /\ pc' = "ScriptGeneration"
    /\ UNCHANGED <<unit_vars, request, ppt_content, url_content, video_outline, is_crawl_success, task,
                   selling_points, content_direction, creator_style, extracted_style_type,
                   final_content, final_direction, video_script, sheet_result, response,
                   via, calls, dispatched, script_args, faults>>

\* lines 504-513: process_video_script
ScriptGeneration ==
    /\ pc = "ScriptGeneration"
    /\ script_args' = JDict(<<KV(Key("creator_style"), creator_style),
                              KV(Key("selling_points"), selling_points),
                              KV(Key("final_strategy"), final_result),
                              KV(Key("style_type"), extracted_style_type),
                              KV(Key("additional_info"), AdditionalInfo(request))>>)
    /\ \E rs \in Exchanges("script") :
          LET n == extract_json_from_text(call_volcano_api(rs).ret)
          IN /\ Invoke("script", rs)
             /\ IF n.raised
                THEN /\ pc' = "Failed"
                     /\ response' = Handler(TypeError)
                     /\ UNCHANGED video_script
                ELSE /\ pc' = "Persisting"
                     /\ video_script' = n.v
                     /\ UNCHANGED response
    /\ UNCHANGED <<unit_vars, request, ppt_content, url_content, video_outline, is_crawl_success, task,
                   selling_points, content_direction, creator_style, extracted_style_type,
                   final_content, final_direction, final_result, shot_list, sheet_result,
                   dispatched>>

\* lines 517-550: full_flow's result, or the result built from an exception
\* raised in the try block
PersistRaised ==
    ErrorResult(<<"FeiShuBiaoGeChuLiShiBai", ":", " ", "e">>)
SheetResult(outcome) == IF outcome = "raises" THEN PersistRaised ELSE full_flow(outcome)

ResourceType(crawl_success) == JStr(IF crawl_success THEN <<"online">> ELSE <<"local">>)

\* A response that also looks at the strategy (variant)
ResponseChecksStrategy(sheet, style_type, direction, strategy, script, crawl_success) ==
    JDict(<<KV(Key("status"),
               JStr(IF GetOr(sheet, Key("status"), JNone) = JStr(<<"success">>) /\ Truthy(strategy)
                    THEN <<"success">> ELSE <<"error">>)),
            KV(Key("resource_type"), JStr(IF crawl_success THEN <<"online">> ELSE <<"local">>))>>)
\* lines 556-574
Response(sheet, style_type, direction, strategy, script, crawl_success) ==
    IF GetOr(sheet, Key("status"), JNone) = JStr(<<"success">>)
    THEN JDict(<<KV(Key("status"), JStr(<<"success">>)),
                 KV(Key("spreadsheet_url"), GetOr(sheet, Key("spreadsheet_url"), JNone)),
                 KV(Key("message"), JStr(<<"NeiRongCeLueYiShengChengBingBaoCunDaoFeiShuBiaoGe">>
                        \o (IF crawl_success THEN <<>> ELSE <<"(ShiYongBenDiDaRenZiYuan)">>))),
                 KV(Key("style_type_used"), style_type),
                 KV(Key("final_direction_used"), direction),
                 KV(Key("resource_type"), ResourceType(crawl_success))>>)
    ELSE JDict(<<KV(Key("status"), JStr(<<"error">>)),
                 KV(Key("message"), JStr(<<"NeiRongCeLueShengChengChengGong.DanBaoCunDaoFeiShuBiaoGeShiBai", ":", " ">>
                        \o StrOf(GetOr(sheet, Key("message"), JNone)))),
                 KV(Key("final_strategy"), strategy),
                 KV(Key("video_script"), script),
                 KV(Key("resource_type"), ResourceType(crawl_success))>>)

\* Variant: a run whose sheet was not written starts over
TerminalRestart(sheet) ==
    IF GetOr(sheet, Key("status"), JNone) = JStr(<<"success">>) THEN "Completed"
    ELSE "Acquiring"

\* line 557: the state the run ends in
Terminal(sheet) ==
    IF GetOr(sheet, Key("status"), JNone) = JStr(<<"success">>) THEN "Completed"
    ELSE "PartiallyCompleted"

\* lines 515-574
Persist ==
    /\ pc = "Persisting"
    /\ \E outcome \in FeishuBackend \cup {"raises"} :
          /\ sheet_result' = SheetResult(outcome)
          /\ response' = Return(Response(SheetResult(outcome), extracted_style_type,
                                         final_direction, final_result, video_script,
                                         is_crawl_success))
          /\ pc' = Terminal(SheetResult(outcome))
    /\ UNCHANGED <<unit_vars, request, ppt_content, url_content, video_outline, is_crawl_success, task,
                   selling_points, content_direction, creator_style, extracted_style_type,
                   final_content, final_direction, final_result, shot_list, video_script,
                   via, calls, dispatched, script_args, faults>>

Next ==
    \/ ValidateStyle
    \/ Acquire
    \/ \E b \in Tasks : TaskResolve(b)
    \/ GatherRaise
    \/ Join
    \/ ResolveStyle
    \/ FinalStrategy
    \/ DispatchSeeding
    \/ DispatchEvaluation
    \/ DispatchNone
    \/ ScriptGeneration
    \/ Persist

Spec == Init /\ [][Next]_vars
\* ------------------------------------------------ the direction processors
\* A processor called on its own, any number of times up to MaxCalls gateway
\* invocations, with any direction label.
MaxCalls == 2

EvaluationLabels == {DanPinCePing, HengXiangCePing, TongPinPaiJuZhen, ZhengDaoBanDuiBi}
SeedingLabels ==
    {DanPinZhongCao, KaiXiangZhongCao, VlogZhiRu, HaoWuHeJi, RiChangZhongCao,
     JiQiaoXingJiaoChengGanHuo, MeiShiDIYJiaoChengGanHuo, JieJueFangAnXingJiaoChengGanHuo}
\* every label of either branch, the empty label, a label of no branch, a
\* direction that is not a string
Directions ==
    {JStr(l) : l \in EvaluationLabels \cup SeedingLabels}
      \cup {JStr(<<>>), JStr(<<"TuiJian">>), JNum(<<"7">>)}

InitProc ==
    /\ pc = "Processor"
    /\ request \in {r \in Requests : r.style_type = CePingLei /\ r.use_local_influencer}
    /\ Fresh

ProcessSeeding ==
    /\ pc = "Processor"
    /\ calls["dispatch"] < MaxCalls
    /\ \E direction \in Directions :
          \E rs \in ProcessorExchanges(SeedingSelect(direction)) :
             LET run == SeedingRun(direction, rs, AdditionalInfo(request))
             IN /\ dispatched' = run
                /\ IF run.call THEN Counted("dispatch", rs) ELSE UNCHANGED <<via, calls>>
    /\ UNCHANGED <<unit_vars, pc, request, ppt_content, url_content, video_outline, is_crawl_success,
                   task, selling_points, content_direction, creator_style,
                   extracted_style_type, final_content, final_direction, final_result,
                   shot_list, video_script, sheet_result, response, script_args, faults>>

ProcessEvaluation ==
    /\ pc = "Processor"
    /\ calls["dispatch"] < MaxCalls
    /\ \E direction \in Directions :
          \E rs \in ProcessorExchanges(EvaluationSelect(direction)) :
             LET run == EvaluationRun(direction, rs)
             IN /\ dispatched' = run
                /\ IF run.call THEN Counted("dispatch", rs) ELSE UNCHANGED <<via, calls>>
    /\ UNCHANGED <<unit_vars, pc, request, ppt_content, url_content, video_outline, is_crawl_success,
                   task, selling_points, content_direction, creator_style,
                   extracted_style_type, final_content, final_direction, final_result,
                   shot_list, video_script, sheet_result, response, script_args, faults>>

NextProc == ProcessSeeding \/ ProcessEvaluation

SpecProc == InitProc /\ [][NextProc]_vars
\* ------------------------------------------------------------ properties
Resolved(b) == task[b].st \in {"done", "raised"}
\* The call of site c left call_volcano_api by one of its failure returns
GatewayFailed(c) == via[c] \in {"http400", "http401", "http404", "empty", "exhausted", "exceeded"}
\* The answer of task b gave the normalizer nothing to structure
Unstructured(b) ==
    \/ task[b].st = "raised"
    \/ task[b].st = "done" /\ HasKey(task[b].v, Key("raw_content"))
AnalysisFailed(b) == Resolved(b) /\ (GatewayFailed(b) \/ Unstructured(b))
NoLaterStage ==
    /\ calls["final"] = 0 /\ calls["dispatch"] = 0 /\ calls["script"] = 0
    /\ dispatched = NoDispatch
    /\ sheet_result = Unset

\* C1: when the selling-points call or the content-direction call ended in a
\* gateway failure (400/401/404, retries exhausted, empty result) or in an
\* answer without recoverable structure, the run is aborted with a server
\* error and neither the final-strategy call, the dispatch, the script
\* generation nor the persistence step is ever invoked.
C1_AnalysisFailureIsFatal ==
    \A b \in {"sp", "cd"} :
        AnalysisFailed(b) =>
            /\ pc \in {"ParallelAnalysis", "Failed"}
            /\ pc = "Failed" => response.kind = "raise" /\ response.status_code = 500
            /\ NoLaterStage

\* What input validation rejects, read off the request and the two files
InvalidStyle == request.style_type \notin {CePingLei, ZhongCaoLei}
InvalidFiles == ppt_content \in {PptMissing, PptUnreadable} \/ video_outline = OutlineUnreadable
ValidationFailed ==
    \/ pc # "Received" /\ InvalidStyle
    \/ pc \notin {"Received", "Acquiring"} /\ InvalidFiles

\* C2: a request that fails input validation (style_type outside the two
\* recognized values, PPT read or outline read returning an error string) ends
\* in rejection, and no gateway call has been issued for it.
C2_RejectedBeforeAnyCall ==
    ValidationFailed =>
        /\ pc = "Rejected"
        /\ response.kind = "raise"
        /\ \A c \in Sites : calls[c] = 0 /\ via[c] = ""
        /\ \A b \in Tasks : task[b].st = "none"

C2_Witness ==
    /\ pc = "Rejected"
    /\ ~InvalidStyle
    /\ ppt_content = PptText
    /\ video_outline = OutlineUnreadable

\* C3: a client input error (style_type outside the recognized set, missing
\* or unreadable PPT or outline) reaches the caller with status 400, never as
\* a 5xx response.
C3_ClientErrorIs400 ==
    ValidationFailed => response.kind = "raise" /\ response.status_code = 400

\* C4: when the creator-style call ended in a gateway failure or in an answer
\* the normalizer could not structure (and the other two analyses did not
\* fail), the run goes on and the creator style every later stage uses is the
\* default style object whose style_type is the request's style hint.
C4_CreatorStyleFallsBackToDefault ==
    ( /\ \A b \in Tasks : Resolved(b)
      /\ pc # "ParallelAnalysis"
      /\ AnalysisFailed("cs")
      /\ ~AnalysisFailed("sp") /\ ~AnalysisFailed("cd") ) =>
        /\ creator_style = default_creator_style(request.style_type)
        /\ extracted_style_type \in {Unset, request.style_type}
        /\ script_args # Unset =>
              Get(script_args, Key("creator_style")) = default_creator_style(request.style_type)

LaterStages ==
    {"StyleResolved", "FinalStrategy", "DirectionDispatch", "ScriptGeneration", "Persisting",
     "Completed", "PartiallyCompleted"}

JoinedOnlyWhenAllDone ==
    ( \/ pc \in LaterStages
      \/ selling_points # Unset \/ content_direction # Unset \/ creator_style # Unset
      \/ ~NoLaterStage ) => \A b \in Tasks : task[b].st = "done"
\* No step takes a started call back or changes the outcome of a resolved one
CallsRunToCompletion ==
    \A b \in Tasks :
        /\ task[b].st = "pending" => task'[b].st \in {"pending", "done", "raised"}
        /\ Resolved(b) => task'[b] = task[b]

\* C5: in every interleaving of the three concurrent analysis calls, none of
\* the three results is inspected and no later stage is started before all
\* three calls have resolved, in success or in failure; and no step, the
\* failure of another call included, stops a call that is still running.
C5_StrictJoin ==
    /\ []JoinedOnlyWhenAllDone
    /\ [][CallsRunToCompletion]_vars

C5_Witness ==
    /\ pc = "ParallelAnalysis"
    /\ task["cs"].st = "done" /\ GatewayFailed("cs")
    /\ task["sp"].st = "pending"
    /\ task["cd"].st = "done"

Order(stage) ==
    CASE stage = "Received" -> 0
      [] stage = "Acquiring" -> 1
      [] stage = "ParallelAnalysis" -> 2
      [] stage = "StyleResolved" -> 3
      [] stage = "FinalStrategy" -> 4
      [] stage = "DirectionDispatch" -> 5
      [] stage = "ScriptGeneration" -> 6
      [] stage = "Persisting" -> 7
      [] OTHER -> 8
TerminalStates == {"Rejected", "Failed", "Completed", "PartiallyCompleted"}

\* C6: the stages of a run occur only in the order Acquiring,
\* ParallelAnalysis, StyleResolved, FinalStrategy, DirectionDispatch,
\* ScriptGeneration, Persisting, terminal state: every change of stage goes to
\* the next stage or to a terminal state, and a terminal state is never left.
C6_StagesInOrder ==
    [][pc' # pc =>
          /\ pc \notin TerminalStates
          /\ pc' \in TerminalStates \/ Order(pc') = Order(pc) + 1
          /\ pc' \in {"Completed", "PartiallyCompleted"} => pc = "Persisting"]_vars

C6_Witness ==
    pc = "Completed" /\ \A c \in Sites \ {"dispatch"} : calls[c] = 1

\* The table of a branch, as the labels it documents
InBranchTable(branch, direction) ==
    \/ branch = "evaluation" /\ direction \in {JStr(l) : l \in EvaluationLabels}
    \/ branch = "seeding" /\ direction \in {JStr(l) : l \in SeedingLabels}
\* A structured error: a mapping with an "error" entry, as the processor's
\* result or as the "result" entry of it
IsErrorResult(result) ==
    \/ HasKey(result, Key("error"))
    \/ HasKey(result, Key("result")) /\ HasKey(Get(result, Key("result")), Key("error"))

\* C7: for every direction label outside the branch's table, the empty label
\* included, the processor of either branch raises nothing and returns a
\* structured UnknownDirection error result.
C7_UnknownDirectionIsStructuredError ==
    (dispatched.branch # "" /\ ~InBranchTable(dispatched.branch, dispatched.direction)) =>
        ~dispatched.raised /\ IsErrorResult(dispatched.result)

C9_EvaluationTable ==
    dispatched.branch = "evaluation" =>
        /\ dispatched.call <=> dispatched.direction \in {JStr(l) : l \in EvaluationLabels}
        /\ Cardinality(EvaluationLabels) = 4
        /\ dispatched.direction = JStr(DanPinCePing) =>
              /\ dispatched.system = "PROMPT_EVALUATION_SINGLE_SYSTEM"
              /\ dispatched.user = "PROMPT_EVALUATION_SINGLE_USER"
        /\ \A l1, l2 \in EvaluationLabels :
              l1 # l2 =>
                 /\ EvaluationSelect(JStr(l1)).system # EvaluationSelect(JStr(l2)).system
                 /\ EvaluationSelect(JStr(l1)).user # EvaluationSelect(JStr(l2)).user
        /\ \A l \in SeedingLabels : ~EvaluationSelect(JStr(l)).call

C9_Witness ==
    /\ dispatched.branch = "evaluation"
    /\ dispatched.direction = JStr(DanPinZhongCao)
    /\ ~dispatched.call
    /\ calls["dispatch"] = 1

\* C10: when the persistence step returned a non-success status or raised,
\* the run still returns a normal response, of status "error", that carries
\* the direction processor's result as the strategy and the generated script,
\* in the seeding branch and in the evaluation branch.
C10_PartialSuccessCarriesStrategy ==
    (pc = "PartiallyCompleted" /\ dispatched.branch # "") =>
        /\ response.kind = "return"
        /\ Get(response.body, Key("status")) = JStr(<<"error">>)
        /\ Get(response.body, Key("final_strategy")) = dispatched.result
        /\ Get(response.body, Key("video_script")) = video_script
\* ------------------------------------------- call_volcano_api on its own
InitUnit ==
    /\ pc = "Unit"
    /\ request \in {r \in Requests : r.style_type = CePingLei /\ r.use_local_influencer}
    /\ Fresh

\* What one HTTP exchange of the gateway can come to
ApiResponses ==
    {Http400(Body400Json), Http400(Body400Text), Http401, Http404, Http5xx, ConnError, Timeout,
     OkEmptyChoices, OkNoChoices, OkNoMessage, OkContent(PyNone), OkContent(PyStr(<<>>)),
     OkContent(PyStr(A_Script)), OkContent(PyStr(A_Prose))}
\* What the backend answers to the first, second, ... attempt of one call
ApiTraces == [1..max_retries -> ApiResponses]

CallVolcanoApi ==
    /\ pc = "Unit"
    /\ unit = NoUnit
    /\ \E rs \in ApiTraces :
          unit' = [fn |-> "call_volcano_api", args |-> rs, ret |-> call_volcano_api(rs)]
    /\ UNCHANGED <<run_vars, mgr_vars, callers>>

NextApi == CallVolcanoApi

SpecApi == InitUnit /\ [][NextApi]_vars

\* An exchange that ends in an exception: connection error, 5xx, timeout,
\* envelope without a message
Transient(r) == r.kind \in {"http5xx", "conn_error", "timeout", "ok_no_message"}
\* Attempt k is made, every attempt before it having ended in an exception
Attempted(rs, k) == \A j \in 1..(k - 1) : Transient(rs[j])

\* C12: when an attempt of call_volcano_api receives status 400, 401 or 404,
\* whichever attempt it is, the call returns the matching failure text at
\* once: that attempt is the last one and no backoff sleep follows it.
C12_ClientErrorReturnsAtOnce ==
    unit.fn = "call_volcano_api" =>
        \A k \in 1..max_retries :
            (Attempted(unit.args, k) /\ unit.args[k].kind \in {"http400", "http401", "http404"}) =>
                /\ unit.ret.via = unit.args[k].kind
                /\ unit.ret.ret.ty = "str"
                /\ At(unit.ret.ret.toks, 1) =
                      D(CASE unit.args[k].kind = "http400" -> "400"
                          [] unit.args[k].kind = "http401" -> "401"
                          [] OTHER -> "404")
                /\ unit.ret.attempts = k
                /\ Len(unit.ret.sleeps) = k - 1

C12_Witness ==
    /\ unit.fn = "call_volcano_api"
    /\ unit.args[1] = Http5xx /\ unit.args[2] = Http401
    /\ unit.ret.via = "http401"

\* C13: for connection-level errors and 5xx answers call_volcano_api makes at
\* most max_retries attempts, sleeps 5*k seconds after the k-th failed attempt
\* and not after the last, and when every attempt failed returns the failure
\* text that carries the last error's detail; it returns in every case.
C13_BoundedRetriesWithBackoff ==
    unit.fn = "call_volcano_api" =>
        /\ unit.ret.attempts \in 1..max_retries
        /\ Len(unit.ret.sleeps) = unit.ret.attempts - 1
        /\ \A k \in 1..Len(unit.ret.sleeps) : unit.ret.sleeps[k] = 5 * k
        /\ \A k \in 1..(unit.ret.attempts - 1) : Transient(unit.args[k])
        /\ (\A k \in 1..max_retries : unit.args[k].kind \in {"http5xx", "conn_error", "timeout"}) =>
              /\ unit.ret.via = "exhausted"
              /\ unit.ret.attempts = max_retries
              /\ unit.ret.ret = PyStr(<<W("ChuLiShiBai"), P(":"), SP>> \o StrExc(unit.args[max_retries]))

C13_Witness ==
    /\ unit.fn = "call_volcano_api"
    /\ unit.args = [k \in 1..max_retries |-> IF k = max_retries THEN ConnError ELSE Http5xx]
    /\ unit.ret.sleeps = <<5, 10>>

\* C14: call_volcano_api returns a success only for an envelope whose first
\* choice holds non-empty message text; no choices, an empty choices list, a
\* first choice without message or content, or empty content give a failure
\* outcome, never a success with empty text.
C14_SuccessHasText ==
    unit.fn = "call_volcano_api" =>
        /\ unit.ret.via = "content" => unit.ret.ret.ty = "str" /\ unit.ret.ret.toks # <<>>
        /\ unit.ret.ret.ty = "str"
        /\ unit.ret.ret.toks = <<>> => unit.ret.via # "content"

\* ------------------------------------------- extract_content_from_url
max_attempts == 3
\* A document of spaces only, and the text of the unreachable last return:
\* "超过最大重试次数（3次），无法获取网页内容"
DocBlank == <<SP, SP>>
DocExceeded == <<W("ChaoGuoZuiDaChongShiCiShu"), P("("), D("3"), W("Ci"), P(")"), W(".WuFaHuoQuWangYeNeiRong")>>
\* What one pass of the loop body meets: a result document (the status
\* text, or what extract_text_and_images_in_order returned) or an exception
Fetched(doc) == [raised |-> FALSE, doc |-> doc]
FetchRaised == [raised |-> TRUE, doc |-> <<>>]
ScrapeOutcomes ==
    {Fetched(DocPage), Fetched(DocEmpty), Fetched(DocBlank), Fetched(DocStatus),
     Fetched(DocExtractError), FetchRaised}
\* The retry test without the strip() (variant)
ScrapeRetryUnstripped(doc) ==
    \/ Flatten(doc) = <<>>
    \/ \E p \in {<<"QingQiuShiBai">>, <<"HuoQuWangYeNeiRongShiChuCuo">>, <<"TiQuNeiRongShiChuCuo">>} :
           StartsWith(Flatten(doc), p)
\* The retry test of lines 61-62
ScrapeRetry(doc) ==
    \/ strip(Flatten(doc)) = <<>>
    \/ \E p \in {<<"QingQiuShiBai">>, <<"HuoQuWangYeNeiRongShiChuCuo">>, <<"TiQuNeiRongShiChuCuo">>} :
           StartsWith(Flatten(doc), p)
ScrapeResult(doc, attempts, sleeps) == [document |-> doc, attempts |-> attempts, sleeps |-> sleeps]
\* The while loop: attempt counts the passes made so far, sleeps the
\* one-second waits
RECURSIVE ScrapeLoop(_, _, _)
ScrapeLoop(os, attempt, sleeps) ==
    IF attempt >= max_attempts
    THEN ScrapeResult(DocExceeded, attempt, sleeps)
    ELSE LET a == attempt + 1
             o == os[a]
         IN IF o.raised
            THEN IF a < max_attempts
                 THEN ScrapeLoop(os, a, sleeps + 1)
                 ELSE ScrapeResult(DocException, a, sleeps)
            ELSE IF ScrapeRetry(o.doc) /\ a < max_attempts
                 THEN ScrapeLoop(os, a, sleeps + 1)
                 ELSE ScrapeResult(o.doc, a, sleeps)
extract_content_from_url(os) == ScrapeLoop(os, 0, 0)

ScrapeTraces == [1..max_attempts -> ScrapeOutcomes]
ExtractContentFromUrl ==
    /\ pc = "Unit"
    /\ unit = NoUnit
    /\ \E os \in ScrapeTraces :
           unit' = [fn |-> "extract_content_from_url", args |-> os,
                    ret |-> extract_content_from_url(os)]
    /\ UNCHANGED <<run_vars, mgr_vars, callers>>
NextScrape == ExtractContentFromUrl
SpecScrape == InitUnit /\ [][NextScrape]_vars

\* An attempt that calls for another one: empty document, failure-prefixed
\* document or exception
EmptyDocument(doc) == \A i \in 1..Len(Flatten(doc)) : IsSpace(Flatten(doc)[i])
FailurePrefixed(doc) ==
    /\ doc # <<>>
    /\ Head(doc) \in {W("QingQiuShiBai"), W("HuoQuWangYeNeiRongShiChuCuo"), W("TiQuNeiRongShiChuCuo")}
AttemptFailed(o) == o.raised \/ EmptyDocument(o.doc) \/ FailurePrefixed(o.doc)
Scraped == unit.fn = "extract_content_from_url"

\* C15: extract_content_from_url makes at most 3 attempts; attempt k+1 is
\* made only if attempts 1..k each produced an empty document, a
\* failure-prefixed document or an exception; the first attempt with
\* non-empty, non-failure content ends the loop and its content is returned;
\* one second is slept between two attempts.
C15_RetryOnlyOnFailure ==
    Scraped =>
        LET os == unit.args
            r == unit.ret
        IN /\ r.attempts \in 1..max_attempts
           /\ \A k \in 1..(r.attempts - 1) : AttemptFailed(os[k])
           /\ r.attempts < max_attempts => ~AttemptFailed(os[r.attempts])
           /\ ~AttemptFailed(os[r.attempts]) => r.document = os[r.attempts].doc
           /\ r.sleeps = r.attempts - 1
\* empty, empty, valid: the valid content after exactly 3 attempts
C15_Witness ==
    /\ Scraped
    /\ unit.args = <<Fetched(DocEmpty), Fetched(DocEmpty), Fetched(DocPage)>>
    /\ unit.ret.document = DocPage
    /\ unit.ret.attempts = 3

\* C16: when all 3 attempts fail, the returned document is the "exceeded
\* max retries" error document.
C16_ExhaustedIsFramedAsExceeded ==
    (Scraped /\ \A k \in 1..max_attempts : AttemptFailed(unit.args[k]))
        => unit.ret.document = DocExceeded

\* C17: whenever the caller requests local resources or the scrape ends in a
\* result the scraper itself treats as failed (empty document,
\* failure-prefixed document, attempts exhausted by exceptions), the profile
\* content is the local-directory scan and the response reports
\* resource_type "local"; otherwise it reports "online".
C17_FailedScrapeFallsBackToLocal ==
    pc \in {"Completed", "PartiallyCompleted"} =>
        LET reported == Get(response.body, Key("resource_type"))
        IN /\ request.use_local_influencer \/ ScrapeFailed(url_content)
                  => reported = JStr(<<"local">>) /\ url_content = DocLocal
           /\ reported = JStr(<<"local">>) => url_content = DocLocal
           /\ reported \in {JStr(<<"local">>), JStr(<<"online">>)}

\* --------------------------------- FeishuSheetManager on its own, with a clock
MaxTime == 180
MaxTokenRequests == 3
MaxFlows == 2
ClockSteps == {30, 60}

TheManager == Manager(tenant_access_token, token_expire_time)

\* time passes between two calls
Tick ==
    /\ pc = "Unit"
    /\ \E d \in ClockSteps : now + d <= MaxTime /\ now' = now + d
    /\ UNCHANGED <<run_vars, unit, tenant_access_token, token_expire_time, token_requests, flows,
                   callers>>

\* one call of get_tenant_access_token
GetTenantAccessToken ==
    /\ pc = "Unit"
    /\ token_requests < MaxTokenRequests
    /\ \E resp \in TokenResponses :
          LET r == get_tenant_access_token(TheManager, now, resp)
          IN /\ tenant_access_token' = r.mgr.tenant_access_token
             /\ token_expire_time' = r.mgr.token_expire_time
             /\ token_requests' = token_requests + (IF r.requested THEN 1 ELSE 0)
             /\ unit' = [fn |-> "get_tenant_access_token", args |-> <<TheManager, now>>,
                         ret |-> [raised |-> r.raised, token |-> r.token,
                                  requested |-> r.requested]]
    /\ UNCHANGED <<run_vars, now, flows, callers>>

\* The two token calls of one full_flow under a backend: the one of
\* create_sheet_from_template, then, if the sheet was created, one second
\* later (asyncio.sleep(1)) the one of fill_cells_in_sheet. A token request
\* can only fail where one is issued.
FirstToken(backend, resp) ==
    get_tenant_access_token(TheManager, now,
                            IF backend = "token_fails" THEN TokenHttpError ELSE resp)
ReachesWrite(backend) == backend \in {"ok", "retoken_fails", "write_fails", "write_unreachable"}
SecondToken(backend, resp1, resp2) ==
    get_tenant_access_token(FirstToken(backend, resp1).mgr, now + 1,
                            IF backend = "retoken_fails" THEN TokenCodeError ELSE resp2)
\* the answers a token request of a flow gets when it does not fail
FlowTokens == {TokenOk(t, e) : t \in Tokens, e \in {60, DefaultExpireIn}}
FullFlow ==
    /\ pc = "Unit"
    /\ token_requests < MaxTokenRequests
    /\ flows < MaxFlows
    /\ now < MaxTime
    /\ \E backend \in FeishuBackend, resp1, resp2 \in FlowTokens :
          LET first == FirstToken(backend, resp1)
              second == SecondToken(backend, resp1, resp2)
              last == IF ReachesWrite(backend) THEN second ELSE first
          IN /\ backend = "token_fails" => first.requested
             /\ backend = "retoken_fails" => second.requested
             /\ tenant_access_token' = last.mgr.tenant_access_token
             /\ token_expire_time' = last.mgr.token_expire_time
             /\ token_requests' = token_requests + (IF first.requested THEN 1 ELSE 0)
                    + (IF ReachesWrite(backend) /\ second.requested THEN 1 ELSE 0)
             /\ now' = IF ReachesWrite(backend) THEN now + 1 ELSE now
             /\ flows' = flows + 1
             /\ unit' = [fn |-> "full_flow", args |-> backend, ret |-> FullFlowOutcome(backend)]
    /\ UNCHANGED <<run_vars, callers>>

\* What create_and_write awaits, in order, under a backend: the token call and
\* the two requests of create_sheet_from_template, asyncio.sleep(1), the token
\* call and the request of fill_cells_in_sheet
CreateAndWriteSteps(backend) ==
    CASE backend = "token_fails" -> <<"token">>
      [] backend = "copy_fails" -> <<"token", "copy">>
      [] backend = "meta_fails" -> <<"token", "copy", "meta">>
      [] backend = "retoken_fails" -> <<"token", "copy", "meta", "sleep", "token">>
      [] OTHER -> <<"token", "copy", "meta", "sleep", "token", "write">>

\* one call of create_and_write
CreateAndWrite ==
    /\ pc = "Unit"
    /\ unit = NoUnit
    /\ \E backend \in FeishuBackend :
          unit' = [fn |-> "create_and_write", args |-> backend,
                   ret |-> [out |-> create_and_write(backend),
                            steps |-> CreateAndWriteSteps(backend)]]
    /\ UNCHANGED <<run_vars, mgr_vars, callers>>

NextFeishu == Tick \/ GetTenantAccessToken \/ FullFlow \/ CreateAndWrite
SpecFeishu == InitUnit /\ [][NextFeishu]_vars

\* C11: for every failure of the token request, the template copy, the
\* metadata lookup or the cell write, full_flow returns a result with status
\* "error" and a message; no exception leaves full_flow.
C11_FullFlowFailureIsErrorResult ==
    (unit.fn = "full_flow" /\ unit.args # "ok") =>
        /\ ~unit.ret.raised
        /\ Get(unit.ret.v, Key("status")) = JStr(<<"error">>)
        /\ HasKey(unit.ret.v, Key("message"))
        /\ Get(unit.ret.v, Key("message")).t = "str"
        /\ Get(unit.ret.v, Key("message")).s # <<>>
\* the cell write fails without an answer, and full_flow has returned
C11_Witness ==
    /\ unit.fn = "full_flow"
    /\ unit.args = "write_unreachable"
    /\ Get(unit.ret.v, Key("status")) = JStr(<<"error">>)

\* C18: get_tenant_access_token issues a token request only when no token is
\* cached or the cached token is within 60 seconds of its expiry; in every
\* other case it returns the cached token, issues no request and leaves the
\* cache as it is.
NoTokenCached == tenant_access_token \in {PyNone, PyStr(<<>>)}
WithinMargin == token_expire_time - now <= 60
\* a step that is a call of get_tenant_access_token (the clock stands still)
TokenCall == unit'.fn = "get_tenant_access_token" /\ now' = now
C18_TokenRequestOnlyWhenStale ==
    [][TokenCall =>
          IF NoTokenCached \/ WithinMargin
          THEN token_requests' = token_requests + 1
          ELSE /\ token_requests' = token_requests
               /\ ~unit'.ret.raised
               /\ unit'.ret.token = tenant_access_token
               /\ tenant_access_token' = tenant_access_token
               /\ token_expire_time' = token_expire_time]_vars
\* a call that found a token with more than 60 seconds left and returned it
C18_Witness ==
    /\ unit.fn = "get_tenant_access_token"
    /\ PyTruthy(unit.args[1].tenant_access_token)
    /\ unit.args[1].token_expire_time - unit.args[2] = 90
    /\ ~unit.ret.requested
    /\ unit.ret.token = unit.args[1].tenant_access_token

\* ------------------------------------- extract_json_from_text on its own
\* A value written as text: strings and keys as literals of class quote,
\* after a comma and after a colon the tokens sep
RECURSIVE Render(_, _, _), RenderEntries(_, _, _, _)
Render(v, quote, sep) ==
    CASE v.t = "none" -> <<LIT("null")>>
      [] v.t = "bool" -> <<Tok("lit", v.s)>>
      [] v.t = "num" -> <<Tok("d", v.s)>>
      [] v.t = "str" -> <<Tok(quote, v.s)>>
      [] v.t = "dict" -> <<P("{")>> \o RenderEntries(v.kv, TRUE, quote, sep) \o <<P("}")>>
      [] OTHER -> <<P("[")>> \o RenderEntries(v.kv, FALSE, quote, sep) \o <<P("]")>>
RenderEntries(kv, keyed, quote, sep) ==
    IF kv = <<>> THEN <<>>
    ELSE (IF keyed THEN <<Tok(quote, Head(kv).k), P(":")>> \o sep ELSE <<>>)
         \o Render(Head(kv).v, quote, sep)
         \o (IF Tail(kv) = <<>> THEN <<>>
             ELSE <<P(",")>> \o sep \o RenderEntries(Tail(kv), keyed, quote, sep))
\* str(value): single-quoted literals (variant)
str_of_value(v) == Render(v, "q", <<SP>>)
\* json.dumps(value, ensure_ascii=False): ", " and ": " as separators
json_dumps(v) == Render(v, "s", <<SP>>)

\* JSON documents of nesting depth two with at most MaxEntries entries in a
\* container; a document may repeat a key
MaxEntries == 2
Scalars == {JStr(<<"a">>), JNum(<<"1">>), JNone, JBool(<<"true">>)}
Keys == {<<"a">>, <<"b">>}
EntrySeqs(S0, keyed, n) ==
    UNION {[1..m -> {KV(k, v) : k \in (IF keyed THEN Keys ELSE {<<>>}), v \in S0}] : m \in 0..n}
Containers(S0, n) ==
    {JDict(kv) : kv \in EntrySeqs(S0, TRUE, n)} \cup {JList(kv) : kv \in EntrySeqs(S0, FALSE, n)}
Documents == Containers(Scalars, MaxEntries) \cup Containers(Containers(Scalars, MaxEntries), 1)
\* The ways a document is laid out in the fence: compact, or a line per entry
Layouts == {<<>>, <<NL, SP>>}
\* ```json <line break> document <line break> ```
Fenced(doc, sep) == <<FENCE, NL>> \o Render(doc, "s", sep) \o <<NL, FENCE>>

\* extract_json_from_text(x), then the same on json.dumps of its result
RoundTrip(x) ==
    LET first == extract_json_from_text(PyStr(x))
    IN [first |-> first,
        text |-> IF first.raised THEN <<>> ELSE json_dumps(first.v),
        second |-> IF first.raised THEN first
                   ELSE extract_json_from_text(PyStr(json_dumps(first.v)))]

\* the normalizer on what the gateway returned for a sequence of exchanges
NormalizeGatewayOutput ==
    /\ pc = "Unit"
    /\ unit = NoUnit
    /\ \E rs \in ApiTraces :
          unit' = [fn |-> "extract_json_from_text", args |-> rs,
                   ret |-> extract_json_from_text(call_volcano_api(rs).ret)]
    /\ UNCHANGED <<run_vars, mgr_vars, callers>>
\* the normalizer on a fenced document and on its own serialized result
NormalizeTwice ==
    /\ pc = "Unit"
    /\ unit = NoUnit
    /\ \E doc \in Documents, sep \in Layouts :
          unit' = [fn |-> "round_trip", args |-> Fenced(doc, sep), ret |-> RoundTrip(Fenced(doc, sep))]
    /\ UNCHANGED <<run_vars, mgr_vars, callers>>
\* one model output given to the normalizer and to the parsers of the two
\* direction processors
RecoverStructure ==
    /\ pc = "Unit"
    /\ unit = NoUnit
    /\ \E x \in {Fenced(doc, sep) : doc \in Documents, sep \in Layouts}
                  \cup {Render(doc, "s", <<SP>>) : doc \in Documents}
                  \cup {A_Shots, A_ShotsObject, A_Prose} :
          unit' = [fn |-> "recover", args |-> x,
                   ret |-> [normalizer |-> extract_json_from_text(PyStr(x)),
                            evaluation |-> EvaluationParse(PyStr(x)),
                            seeding |-> Returned(SeedingParse(PyStr(x)))]]
    /\ UNCHANGED <<run_vars, mgr_vars, callers>>
NextNormalize == NormalizeGatewayOutput \/ NormalizeTwice \/ RecoverStructure
SpecNormalize == InitUnit /\ [][NextNormalize]_vars

\* The mapping {raw_content: <the original text>}
RawContent(t) == JDict(<<KV(Key("raw_content"), JStr(Flatten(t)))>>)
\* No JSON, no key-value line and no Markdown section with a list item
NoStructure(t) ==
    /\ ~(json_pattern_matches(t) /\ json_loads(json_pattern_search(t)).ok)
    /\ ~IsKeyValueLine(t)
    /\ Sections(SplitAt(t, "hd", <<>>), <<>>) = <<>>

\* C19: for every value the gateway can return as model output,
\* extract_json_from_text returns a result and raises no exception; when no
\* structure is recoverable the result is the mapping
\* {raw_content: <the original text>}.
C19_NormalizerNeverRaises ==
    unit.fn = "extract_json_from_text" =>
        LET output == call_volcano_api(unit.args).ret
        IN /\ ~unit.ret.raised
           /\ (output.ty = "str" /\ NoStructure(output.toks))
                  => unit.ret.v = RawContent(output.toks)

\* C20: for every fenced-JSON input x, normalizing x, serializing the result
\* to JSON text and normalizing that text gives a structure equal to the first
\* normalization.
C20_FencedJsonRoundTrip ==
    unit.fn = "round_trip" =>
        /\ ~unit.ret.first.raised
        /\ ~unit.ret.second.raised
        /\ unit.ret.second.v = unit.ret.first.v
\* a fenced array holding an object, laid out over several lines, came back
\* as the list it denotes, both times, by way of a different text
C20_Witness ==
    /\ unit.fn = "round_trip"
    /\ unit.args = Fenced(JList(<<Item(JDict(<<KV(Key("a"), JNum(<<"1">>))>>))>>), <<NL, SP>>)
    /\ unit.ret.first.v = JList(<<Item(JDict(<<KV(Key("a"), JNum(<<"1">>))>>))>>)
    /\ unit.ret.second.v = unit.ret.first.v
    /\ unit.ret.text # unit.args

\* -------------------------------------- the cells of full_flow on their own
FirstShotRow == 29
\* The columns of a shot row and the field each holds:
\* "景别", "画面", "口播", "花字", "时长", "备注"
ShotColumns ==
    <<[col |-> "A", key |-> Key("JingBie")], [col |-> "B", key |-> Key("HuaMian")],
      [col |-> "C", key |-> Key("KouBo")], [col |-> "D", key |-> Key("HuaZi")],
      [col |-> "E", key |-> Key("ShiChang")], [col |-> "F", key |-> Key("BeiZhu")]>>
\* f"{col}{row}"
Cell(col, row) == [col |-> col, row |-> row]
\* every shot in the first row (variant)
ShotRowFixed(i) == FirstShotRow
\* line 382, i counted from 0
ShotRow(i) == FirstShotRow + i
\* lines 384-392: the cells of one shot
RECURSIVE ShotFieldCells(_, _, _, _)
ShotFieldCells(cell_data, shot, row, c) ==
    IF c > Len(ShotColumns) THEN cell_data
    ELSE ShotFieldCells(DictSet(cell_data, Cell(ShotColumns[c].col, row),
                                GetOr(shot, ShotColumns[c].key, JStr(<<>>))),
                        shot, row, c + 1)
ShotCells(cell_data, shot, row) ==
    IF shot.t = "dict" THEN ShotFieldCells(cell_data, shot, row, 1)
    ELSE IF shot.t = "str" THEN DictSet(cell_data, Cell("A", row), shot)
    ELSE cell_data
\* lines 379-392: enumerate(shot_list)
RECURSIVE ShotListCells(_, _, _)
ShotListCells(cell_data, shots, i) ==
    IF i >= Len(shots) THEN cell_data
    ELSE ShotListCells(ShotCells(cell_data, shots[i + 1].v, ShotRow(i)), shots, i + 1)
\* lines 372-396: cell_data for a text, a label and a shot list
CellData(text, label, shots_given) ==
    ShotListCells(<<KV(Cell("B", 9), text), KV(Cell("B", 10), label)>>, shots_given.kv, 0)
\* fill_cells_in_sheet, lines 213-224: a range per cell whose value is a str
RECURSIVE ValueRanges(_)
ValueRanges(cell_data) ==
    IF cell_data = <<>> THEN <<>>
    ELSE (IF Head(cell_data).v.t = "str"
          THEN <<[range |-> Head(cell_data).k, values |-> Head(cell_data).v]>> ELSE <<>>)
         \o ValueRanges(Tail(cell_data))

\* Shot lists of at most MaxShots entries. An entry as the specification
\* types it holds strings under some of the six fields; the model's output
\* can also hold a number under a field, or a bare string as an entry.
MaxShots == 3
ShotFull ==
    JDict(<<KV(Key("JingBie"), JStr(<<"JinJing">>)), KV(Key("HuaMian"), JStr(<<"x">>)),
            KV(Key("KouBo"), JStr(<<"y">>)), KV(Key("HuaZi"), JStr(<<"z">>)),
            KV(Key("ShiChang"), JStr(<<"3s">>)), KV(Key("BeiZhu"), JStr(<<"n">>))>>)
ShotPartial == JDict(<<KV(Key("JingBie"), JStr(<<"YuanJing">>)), KV(Key("HuaMian"), JStr(<<"x">>))>>)
ShotBlank == JDict(<<>>)
ShotNumbered == JDict(<<KV(Key("JingBie"), JStr(<<"JinJing">>)), KV(Key("ShiChang"), JNum(<<"3">>))>>)
ShotText == JStr(<<"JinJing">>)
ShotEntries == {ShotFull, ShotPartial, ShotBlank, ShotNumbered, ShotText}
ShotLists == UNION {{JList([i \in 1..n |-> Item(f[i])]) : f \in [1..n -> ShotEntries]} : n \in 0..MaxShots}

FillShotCells ==
    /\ pc = "Unit"
    /\ unit = NoUnit
    /\ \E shots_given \in ShotLists :
          unit' = [fn |-> "fill_cells", args |-> shots_given,
                   ret |-> ValueRanges(CellData(JStr(<<"text">>), JStr(<<"label">>), shots_given))]
    /\ UNCHANGED <<run_vars, mgr_vars, callers>>
NextCells == FillShotCells
SpecCells == InitUnit /\ [][NextCells]_vars

\* A ShotListEntry: a mapping whose values are strings
IsShotListEntry(shot) == shot.t = "dict" /\ \A j \in 1..Len(shot.kv) : shot.kv[j].v.t = "str"
IsShotList(shots_given) == \A j \in 1..Len(shots_given.kv) : IsShotListEntry(shots_given.kv[j].v)
\* the value sent for a cell
Sent(ranges, cell) == {ranges[j].values : j \in {x \in 1..Len(ranges) : ranges[x].range = cell}}
ShotRowsSent(ranges) ==
    {ranges[j].range.row : j \in {x \in 1..Len(ranges) : ranges[x].range.row >= FirstShotRow}}
\* the ranges of the shot rows, in the order sent
RECURSIVE ShotRangeOrder(_)
ShotRangeOrder(ranges) ==
    IF ranges = <<>> THEN <<>>
    ELSE (IF Head(ranges).range.row >= FirstShotRow THEN <<Head(ranges).range>> ELSE <<>>)
         \o ShotRangeOrder(Tail(ranges))

\* C21: for a shot list of N entries, the cells sent to the spreadsheet put
\* entry i (counted from 0) in row 29+i, columns A to F, in list order: the
\* shot rows sent are exactly rows 29 .. 29+N-1, each cell is sent once, and
\* the cell of row 29+i under a column holds the entry's field of that column
\* (empty when the entry lacks it), so the entries can be read back.
C21_ShotRowsFromRow29 ==
    (unit.fn = "fill_cells" /\ IsShotList(unit.args)) =>
        LET shots == unit.args.kv
            N == Len(shots)
            ranges == unit.ret
        IN /\ ShotRowsSent(ranges) = 29..(29 + N - 1)
           /\ ShotRangeOrder(ranges)
                  = [j \in 1..(6 * N) |->
                        Cell(<<"A", "B", "C", "D", "E", "F">>[((j - 1) % 6) + 1], 29 + ((j - 1) \div 6))]
           /\ \A i \in 0..(N - 1) : \A c \in 1..6 :
                  Sent(ranges, Cell(ShotColumns[c].col, 29 + i))
                      = {GetOr(shots[i + 1].v, ShotColumns[c].key, JStr(<<>>))}
\* three typed entries were written: rows 29, 30 and 31
C21_Witness ==
    /\ unit.fn = "fill_cells"
    /\ unit.args = JList(<<Item(ShotFull), Item(ShotPartial), Item(ShotBlank)>>)
    /\ ShotRowsSent(unit.ret) = {29, 30, 31}
    /\ Sent(unit.ret, Cell("A", 30)) = {JStr(<<"YuanJing">>)}

\* "令牌" occurs in the text
NamesLingPai(cs) == \E i \in 1..Len(cs) : cs[i] = "LingPai"
\* C22: when the tenant-token request fails, full_flow returns status "error"
\* with a message that contains "令牌".
C22_TokenFailureNamesLingPai ==
    (unit.fn = "full_flow" /\ unit.args \in {"token_fails", "retoken_fails"}) =>
        /\ ~unit.ret.raised
        /\ Get(unit.ret.v, Key("status")) = JStr(<<"error">>)
        /\ NamesLingPai(Get(unit.ret.v, Key("message")).s)

\* ------------------------------------------ dispatch, script and response
PastDispatch == pc \in {"ScriptGeneration", "Persisting", "Completed", "PartiallyCompleted"}
PastScript == pc \in {"Persisting", "Completed", "PartiallyCompleted"}

\* C23: in every run that passes validation the resolved style_type is one of
\* the two recognized values, so every run that has gone through
\* DirectionDispatch has invoked exactly one direction processor, the one of
\* the resolved style_type.
C23_ResolvedStyleIsRecognized ==
    /\ extracted_style_type # Unset => extracted_style_type \in {CePingLei, ZhongCaoLei}
    /\ PastDispatch =>
          dispatched.branch = (IF extracted_style_type = ZhongCaoLei THEN "seeding" ELSE "evaluation")

\* C24: in both branches the script-generation call receives the result the
\* direction processor returned in this run (the structured object in the
\* seeding branch, the shot list in the evaluation branch), with creator
\* style, selling points and style type.
C24_ScriptReceivesProcessorResult ==
    (PastScript /\ dispatched.branch # "") =>
        /\ Get(script_args, Key("final_strategy")) = dispatched.result
        /\ Get(script_args, Key("creator_style")) = creator_style
        /\ Get(script_args, Key("selling_points")) = selling_points
        /\ Get(script_args, Key("style_type")) = extracted_style_type

\* a call at the site that ended in one of the gateway's failure texts
FailedCall(site) == calls'[site] > calls[site] /\ via'[site] # "content"
\* C25: a gateway failure outcome in the direction-dispatch call or in the
\* script-generation call never aborts the run: the dispatch step goes on to
\* ScriptGeneration, the script step to Persisting, and the persistence step
\* ends in Completed or PartiallyCompleted with a normal response.
C25_LateFailureDoesNotAbort ==
    [][/\ (pc = "DirectionDispatch" /\ FailedCall("dispatch")) => pc' = "ScriptGeneration"
       /\ (pc = "ScriptGeneration" /\ FailedCall("script")) => pc' = "Persisting"
       /\ pc = "Persisting" =>
             pc' \in {"Completed", "PartiallyCompleted"} /\ response'.kind = "return"]_vars
\* a run whose evaluation dispatch call failed and which completed
C25_Witness ==
    /\ pc = "Completed"
    /\ dispatched.branch = "evaluation"
    /\ via["dispatch"] \notin {"", "content"}
    /\ response.kind = "return"

\* C26: for every run that reaches the persistence step, the response status
\* is "success" exactly when the persistence result's status is "success"; a
\* gateway failure in the final-strategy, dispatch or script call, an unknown
\* direction or an empty shot list does not change the status.
C26_StatusFollowsPersistence ==
    pc \in {"Completed", "PartiallyCompleted"} =>
        /\ response.kind = "return"
        /\ Get(response.body, Key("status")) \in {JStr(<<"success">>), JStr(<<"error">>)}
        /\ Get(response.body, Key("status")) = JStr(<<"success">>)
              <=> GetOr(sheet_result, Key("status"), JNone) = JStr(<<"success">>)
\* a run with a failed final-strategy call, hence no direction and no shots,
\* whose sheet was written: the status is "success"
C26_Witness ==
    /\ pc = "Completed"
    /\ via["final"] \notin {"", "content"}
    /\ shot_list = JList(<<>>)
    /\ Get(response.body, Key("status")) = JStr(<<"success">>)

\* The final-strategy result names no direction: it is no mapping, or none of
\* its direction fields holds a value and none of its summary fields holds a
\* keyword
NoDirectionIn(content) ==
    \/ content.t # "dict"
    \/ /\ \A i \in 1..Len(direction_fields) :
             HasKey(content, direction_fields[i]) => ~Truthy(Get(content, direction_fields[i]))
       /\ \A i \in 1..Len(summary_fields), k \in 1..Len(direction_keywords) :
             ~(/\ HasKey(content, summary_fields[i])
               /\ Get(content, summary_fields[i]).t = "str"
               /\ HasChar(Get(content, summary_fields[i]).s, direction_keywords[k]))
\* C27: when no direction can be resolved from the final-strategy result the
\* run does not abort: the direction passed to dispatch is the empty label,
\* dispatch makes no model call for it, and the run goes on to script
\* generation (and from there as every run does).
C27_NoDirectionIsNotFatal ==
    [][/\ (pc = "FinalStrategy" /\ pc' # pc /\ final_content' # Unset /\ NoDirectionIn(final_content'))
             => pc' = "DirectionDispatch" /\ final_direction' = JStr(<<>>)
       /\ (pc = "DirectionDispatch" /\ pc' # pc /\ final_direction = JStr(<<>>))
             => /\ pc' = "ScriptGeneration"
                /\ calls'["dispatch"] = calls["dispatch"]
                /\ ~dispatched'.call]_vars
\* a run without a direction went through an evaluation dispatch without a
\* model call and completed
C27_Witness ==
    /\ pc = "Completed"
    /\ NoDirectionIn(final_content)
    /\ final_direction = JStr(<<>>)
    /\ dispatched.branch = "evaluation"
    /\ calls["dispatch"] = 0
    /\ calls["script"] = 1

\* ------------------------------------------- the direction probe on its own
\* Final-strategy mappings: each of the four direction keys and two of the
\* summary keys is absent or holds one of a few values, in this key order
Absent == J("absent", <<>>, <<>>)
DirectionValues == {Absent, JNone, JStr(<<>>), JStr(DanPinCePing)}
FinalContents ==
    {[direction |-> d, content_direction |-> c, ZhuTi |-> z, FangXiang |-> f,
      summary |-> m, description |-> e] :
        d \in DirectionValues \cup {JNum(<<"1">>)},
        c \in {Absent, JStr(KaiXiangZhongCao)},
        z \in {Absent, JStr(<<>>)},
        f \in {Absent, JStr(HaoWuHeJi)},
        m \in {Absent, JStr(<<"x">>), JStr(<<"DuiBi", "TuiJian">>)},
        e \in {Absent, JStr(<<"CePing">>)}}
RECURSIVE Entries(_)
Entries(pairs) ==
    IF pairs = <<>> THEN <<>>
    ELSE (IF Head(pairs).v = Absent THEN <<>> ELSE <<Head(pairs)>>) \o Entries(Tail(pairs))
FinalContent(c) ==
    JDict(Entries(<<KV(Key("summary"), c.summary), KV(Key("FangXiang"), c.FangXiang),
                    KV(Key("direction"), c.direction), KV(Key("description"), c.description),
                    KV(Key("ZhuTi"), c.ZhuTi), KV(Key("content_direction"), c.content_direction)>>))
ProbeDirection ==
    /\ pc = "Unit"
    /\ unit = NoUnit
    /\ \E c \in FinalContents :
          unit' = [fn |-> "final_direction", args |-> FinalContent(c),
                   ret |-> FinalDirection(FinalContent(c))]
    /\ UNCHANGED <<run_vars, mgr_vars, callers>>
NextDirection == ProbeDirection
SpecDirection == InitUnit /\ [][NextDirection]_vars

\* the direction keys present in a mapping, by priority
PresentKeys(content) == {i \in 1..4 : HasKey(content, direction_fields[i])}
\* the keywords, by declared order, that occur in a summary field
KeywordsOf(content, i) ==
    {k \in 1..Len(direction_keywords) :
        /\ HasKey(content, summary_fields[i])
        /\ Get(content, summary_fields[i]).t = "str"
        /\ HasChar(Get(content, summary_fields[i]).s, direction_keywords[k])}
\* the summary fields, by scan order, that hold a keyword
KeywordFields(content) == {i \in 1..Len(summary_fields) : KeywordsOf(content, i) # {}}
\* C28: the direction label is the value of the first key present among
\* direction, content_direction, 主题, 方向 (the empty label for a null or
\* empty value); only when none of these keys is
\* present is the keyword fallback used, which scans the summary/description
\* fields and returns the first keyword, in declared order, that occurs in the
\* first field holding one; when nothing matches the label is empty.
C28_FirstPresentKeyIsTheLabel ==
    unit.fn = "final_direction" =>
        LET content == unit.args
            present == PresentKeys(content)
            fields == KeywordFields(content)
        IN IF present # {}
           THEN LET value == Get(content, direction_fields[FirstOf(present)])
                IN unit.ret = (IF value \in {JNone, JStr(<<>>)} THEN JStr(<<>>) ELSE value)
           ELSE IF fields # {}
                THEN unit.ret = JStr(<<direction_keywords[FirstOf(KeywordsOf(content, FirstOf(fields)))]>>)
           ELSE unit.ret = JStr(<<>>)

\* C29: the output of every model call, the dispatch call included, is
\* normalized by the response normalizer: for every model output the structure
\* a direction processor recovers equals the structure extract_json_from_text
\* recovers from the same text.
C29_ProcessorsNormalizeAlike ==
    unit.fn = "recover" =>
        /\ unit.ret.evaluation = unit.ret.normalizer
        /\ unit.ret.seeding = unit.ret.normalizer

\* C30: for every input text the result of extract_json_from_text is a
\* non-null mapping from string keys to values, never a bare sequence or a
\* scalar.
IsMapping(v) == v.t = "dict" /\ \A i \in 1..Len(v.kv) : v.kv[i].k # <<>>
C30_NormalizedResultIsMapping ==
    /\ unit.fn = "round_trip" => ~unit.ret.first.raised /\ IsMapping(unit.ret.first.v)
    /\ unit.fn = "recover" => ~unit.ret.normalizer.raised /\ IsMapping(unit.ret.normalizer.v)
    /\ (unit.fn = "extract_json_from_text" /\ call_volcano_api(unit.args).ret.ty = "str")
          => ~unit.ret.raised /\ IsMapping(unit.ret.v)

\* --------------------------------------------------------------- C31
\* The shots a well-formed evaluation answer holds: the array itself, or the
\* array under the key an object answer carries
WellFormedShots(raw) ==
    IF raw = PyStr(A_Shots) THEN json_loads(A_Shots).v
    ELSE IF raw = PyStr(A_ShotsObject)
         THEN Get(json_loads(A_ShotsObject).v, Key("FenJingJiaoBen"))
    ELSE JList(<<>>)

\* C31: the evaluation processor always returns a list, raising nothing: the
\* array of a JSON array answer, the first list-valued entry among 分镜脚本,
\* shot_list, shots, 分镜 of a JSON object, the one-entry list of a flat object
\* with a shot field, and the empty list otherwise and for every unparseable
\* or failed model output; a well-formed answer of N >= 1 shots gives a
\* non-empty list.
C31_EvaluationAlwaysReturnsList ==
    dispatched.branch = "evaluation" =>
        /\ ~dispatched.raised
        /\ dispatched.result.t = "list"
        /\ dispatched.raw \in {PyStr(A_Shots), PyStr(A_ShotsObject)} =>
              /\ dispatched.result = WellFormedShots(dispatched.raw)
              /\ Len(dispatched.result.kv) >= 1
        /\ (dispatched.raw.ty # "str" \/ ~json_loads(dispatched.raw.toks).ok) =>
              dispatched.result = JList(<<>>)

\* --------------------------------------------------------------- C32
TutorialLabels ==
    {JiQiaoXingJiaoChengGanHuo, MeiShiDIYJiaoChengGanHuo, JieJueFangAnXingJiaoChengGanHuo}
DirectLabels == {DanPinZhongCao, KaiXiangZhongCao, VlogZhiRu, HaoWuHeJi, RiChangZhongCao}
\* The format arguments of the call's user template name the label
LabelPassed == dispatched.call /\ dispatched.direction_param

\* C32: in the seeding branch the three tutorial labels select one and the
\* same template pair with the label passed into the prompt, each of the five
\* direct labels selects a template pair of its own without the label, and
\* every other label selects none.
C32_SeedingTable ==
    dispatched.branch = "seeding" =>
        LET d == dispatched.direction
        IN /\ d \in {JStr(l) : l \in TutorialLabels} =>
                 /\ dispatched.call
                 /\ dispatched.system = "PROMPT_SEEDING_TUTORIAL_SYSTEM"
                 /\ dispatched.user = "PROMPT_SEEDING_TUTORIAL_USER"
                 /\ LabelPassed
           /\ d \in {JStr(l) : l \in DirectLabels} =>
                 /\ dispatched.call
                 /\ ~LabelPassed
                 /\ \A l \in (DirectLabels \cup TutorialLabels) :
                       JStr(l) # d =>
                          /\ SeedingSelect(JStr(l)).system # dispatched.system
                          /\ SeedingSelect(JStr(l)).user # dispatched.user
           /\ d \notin {JStr(l) : l \in DirectLabels \cup TutorialLabels} => ~dispatched.call
           /\ Cardinality(DirectLabels) = 5 /\ Cardinality(TutorialLabels) = 3

C32_Witness ==
    /\ dispatched.branch = "seeding"
    /\ dispatched.direction = JStr(MeiShiDIYJiaoChengGanHuo)
    /\ dispatched.call
    /\ dispatched.user = "PROMPT_SEEDING_TUTORIAL_USER"
    /\ calls["dispatch"] = 2

\* ------------------------------------------ the persistence step of a run
\* FeishuSheetManager.__init__, lines 37-38: the cache of a new manager
NewManager == Manager(PyNone, 0)

\* main.py 518 and 538: the run builds a FeishuSpreadsheetUtil, and with it a
\* FeishuSheetManager, of its own and calls full_flow on it.  The two cache
\* variables hold the cache of the manager built last; that of the run
\* before is held by an object no later run reads.
PersistenceStep ==
    /\ pc = "Unit"
    /\ flows < MaxFlows
    /\ now < MaxTime
    /\ \E backend \in FeishuBackend, resp1, resp2 \in FlowTokens :
          LET first == get_tenant_access_token(NewManager, now,
                          IF backend = "token_fails" THEN TokenHttpError ELSE resp1)
              second == get_tenant_access_token(first.mgr, now + 1,
                          IF backend = "retoken_fails" THEN TokenCodeError ELSE resp2)
              last == IF ReachesWrite(backend) THEN second ELSE first
          IN /\ backend = "retoken_fails" => second.requested
             /\ tenant_access_token' = last.mgr.tenant_access_token
             /\ token_expire_time' = last.mgr.token_expire_time
             /\ token_requests' = token_requests + (IF first.requested THEN 1 ELSE 0)
                    + (IF ReachesWrite(backend) /\ second.requested THEN 1 ELSE 0)
             /\ now' = IF ReachesWrite(backend) THEN now + 1 ELSE now
             /\ flows' = flows + 1
             /\ unit' = [fn |-> "persist", args |-> <<TheManager, now, backend>>,
                         ret |-> FullFlowOutcome(backend)]
    /\ UNCHANGED <<run_vars, callers>>

NextRuns == Tick \/ PersistenceStep
SpecRuns == InitUnit /\ [][NextRuns]_vars

\* C33: the access-token cache outlives a run: when a second pipeline run
\* persists while the token fetched by an earlier run of the same process is
\* still more than 60 seconds from expiry, the second run issues no token
\* request.
C33_TokenCacheOutlivesRun ==
    [][(/\ unit'.fn = "persist"
        /\ flows >= 1
        /\ flows' = flows + 1
        /\ PyTruthy(tenant_access_token)
        /\ token_expire_time > now + ExpiryMargin)
          => token_requests' = token_requests]_vars

\* ------------------------------ get_tenant_access_token calls interleaved
\* The coroutines run on one event loop: a call runs from line 60 to the
\* await of line 74 without interruption, and from the answer to its return
\* or raise without interruption.  The answers are those the token endpoint
\* documents: a token with its lifetime, a non-zero code, an HTTP error.

\* Variant: current_time kept in an attribute of the manager, which the call
\* that entered last has overwritten
CurrentTimeShared(c) ==
    LET times == {callers[x].current_time : x \in {y \in Callers : callers[y].at = "awaiting"}}
    IN CHOOSE t \in times : \A u \in times : u <= t
\* line 60: current_time is a local of the call
CurrentTime(c) == callers[c].current_time

\* lines 60-74: the cache is tested; a valid cache is returned, otherwise the
\* token request is issued and the call is suspended
EnterTokenCall ==
    /\ pc = "Unit"
    /\ token_requests < MaxTokenRequests
    /\ \E c \in Callers :
          /\ callers[c].at # "awaiting"
          /\ IF CacheValid(TheManager, now)
             THEN /\ callers' = [callers EXCEPT ![c] =
                         [at |-> "returned", current_time |-> now, resp |-> TokenCodeError,
                          token |-> tenant_access_token, raised |-> FALSE]]
                  /\ UNCHANGED token_requests
             ELSE /\ callers' = [callers EXCEPT ![c] =
                         [at |-> "awaiting", current_time |-> now, resp |-> TokenCodeError,
                          token |-> PyNone, raised |-> FALSE]]
                  /\ token_requests' = token_requests + 1
    /\ UNCHANGED <<run_vars, unit, tenant_access_token, token_expire_time, now, flows>>

\* lines 74-98: the answer arrives and the call runs to its end
ResumeTokenCall ==
    /\ pc = "Unit"
    /\ \E c \in Callers, resp \in FlowTokens \cup {TokenCodeError, TokenHttpError} :
          /\ callers[c].at = "awaiting"
          /\ LET r == TokenAnswered(TheManager, CurrentTime(c), resp)
             IN /\ tenant_access_token' = r.mgr.tenant_access_token
                /\ token_expire_time' = r.mgr.token_expire_time
                /\ callers' = [callers EXCEPT ![c] =
                       [at |-> IF r.raised THEN "raised" ELSE "returned",
                        current_time |-> callers[c].current_time, resp |-> resp,
                        token |-> r.token, raised |-> r.raised]]
    /\ UNCHANGED <<run_vars, unit, now, token_requests, flows>>

NextRace == Tick \/ EnterTokenCall \/ ResumeTokenCall
SpecRace == InitUnit /\ [][NextRace]_vars

\* the step in which the answer to c's token request arrives
Answered(c) == callers[c].at = "awaiting" /\ callers'[c].at # "awaiting"
TokenRequestFailed ==
    \/ /\ unit'.fn = "get_tenant_access_token" /\ now' = now
       /\ unit'.ret.requested /\ unit'.ret.raised
    \/ \E c \in Callers : Answered(c) /\ callers'[c].resp.kind # "ok"
\* C35: when a token request fails (HTTP error, non-zero code in the answer,
\* or any exception), the cached token and the cached expiry keep the values
\* they had before the call.
C35_FailedRequestKeepsCache ==
    [][TokenRequestFailed =>
          /\ tenant_access_token' = tenant_access_token
          /\ token_expire_time' = token_expire_time
          /\ \A c \in Callers : Answered(c) => callers'[c].raised]_vars

\* --------------------------------------------------------------- C36
CreationFailed(backend) == backend \in {"token_fails", "copy_fails", "meta_fails"}
WriteFailed(backend) == backend \in {"retoken_fails", "write_fails", "write_unreachable"}
Before(steps, x, i) == \E j \in 1..(i - 1) : steps[j] = x
\* C36: in create_and_write the cell write is issued only after the template
\* copy and the metadata lookup both succeeded and after the fixed delay;
\* when creation fails no cell write is issued and the creation error is
\* returned as it is; when creation succeeds and the write fails the result
\* has status "error" and still carries the created document's URL.
C36_WriteAfterCreationAndDelay ==
    unit.fn = "create_and_write" =>
        LET steps == unit.ret.steps
            out == unit.ret.out
        IN /\ \A i \in 1..Len(steps) :
                 steps[i] = "write" =>
                    /\ ~CreationFailed(unit.args)
                    /\ Before(steps, "copy", i) /\ Before(steps, "meta", i)
                    /\ Before(steps, "sleep", i)
           /\ CreationFailed(unit.args) =>
                 /\ \A i \in 1..Len(steps) : steps[i] # "write"
                 /\ ~out.raised
                 /\ out.v = create_sheet_from_template(unit.args)
                 /\ Get(out.v, Key("status")) = JStr(<<"error">>)
           /\ WriteFailed(unit.args) =>
                 /\ ~out.raised
                 /\ Get(out.v, Key("status")) = JStr(<<"error">>)
                 /\ HasKey(out.v, Key("url"))
                 /\ Get(out.v, Key("url")) = Get(SheetCreated, Key("url"))

\* --------------------------------------------------------------- C37
\* How far a run has come: its stage, and within the parallel analysis the
\* number of coroutines that have returned or raised
Rank == 4 * Order(pc) + Cardinality({b \in Tasks : Resolved(b)})
Invocations == calls["sp"] + calls["cd"] + calls["cs"] + calls["final"] + calls["dispatch"]
                 + calls["script"]
\* every gateway invocation a run can make ends within max_retries HTTP attempts
AttemptsBounded ==
    \A c \in Sites : \A rs \in Exchanges(c) :
       /\ call_volcano_api(rs).attempts <= max_retries
       /\ Len(call_volcano_api(rs).sleeps) < max_retries
\* the scrape of line 336 ends within max_attempts attempts
ScrapeBounded ==
    \A os \in ScrapeTraces : extract_content_from_url(os).attempts <= max_attempts

\* C37: when every external call returns or errors, a run reaches a terminal
\* state (rejected, failed, completed or partially completed): every step of
\* a run takes it further (to a later stage, or one more of the parallel
\* coroutines to its end) and no step leaves a terminal state, so no loop
\* runs forever; a run makes at most 3 scrape attempts and at most 6 gateway
\* invocations (three parallel, final strategy, at most one dispatch,
\* script), each of at most 3 HTTP attempts.
C37_RunTerminatesWithinBounds ==
    [][ /\ Rank' > Rank
        /\ pc \in TerminalStates => pc' = pc
        /\ Rank' <= 4 * Order("Completed") + Cardinality(Tasks)
        /\ \A c \in Sites : calls'[c] <= 1
        /\ calls'["sp"] + calls'["cd"] + calls'["cs"] <= 3
        /\ Invocations' <= 6
        /\ pc = "Received" => AttemptsBounded /\ ScrapeBounded ]_vars

\* a run that made its six gateway invocations, one of them failing after
\* retries, and ended
C37_Witness ==
    /\ pc \in {"Completed", "PartiallyCompleted"}
    /\ Invocations = 6
    /\ faults = 1
    /\ \E c \in Sites : via[c] = "exhausted"

\* --------------------------------------------------------------- C38
\* The JSON body the caller receives: the returned dict, or for the
\* HTTPException of lines 321 and 576-578 the framework's {"detail": exc.detail}
\* with detail f"处理请求时出错: {str(e)}"
ResponseBody(resp) ==
    IF resp.kind = "return" THEN resp.body
    ELSE JDict(<<KV(Key("detail"), JStr(<<"ChuLiQingQiuShiChuCuo", ":", " ", "e">>))>>)

\* C38: every terminal response of generate_content_strategy, on the success
\* path, the partial path and every rejection or failure path, includes a
\* status discriminator and a human-readable message.
C38_TerminalResponseHasStatusAndMessage ==
    pc \in TerminalStates =>
        LET body == ResponseBody(response)
        IN /\ HasKey(body, Key("status"))
           /\ Get(body, Key("status")) \in {JStr(<<"success">>), JStr(<<"error">>)}
           /\ HasKey(body, Key("message"))
           /\ Get(body, Key("message")).t = "str"
           /\ Get(body, Key("message")).s # <<>>

\* --------------------------------------------------------------- C39
\* C39: a request that leaves style_type at its configured default value
\* passes the style-type validation: the default of the request model is a
\* member of the accepted two-value set, and the validation step takes such a
\* request on to the acquisition stage.
C39_DefaultStylePassesValidation ==
    [][(pc = "Received" /\ request.style_type = DEFAULT_CREATOR_STYLE_DESC) =>
          /\ DEFAULT_CREATOR_STYLE_DESC \in {CePingLei, ZhongCaoLei}
          /\ pc' = "Acquiring"
          /\ response' = NoResponse]_vars

\* --------------------------------------------------------------- C40
Keywords == {JStr(<<direction_keywords[k]>>) : k \in 1..Len(direction_keywords)}
TableLabels == {JStr(l) : l \in EvaluationLabels \cup SeedingLabels}
\* The direction of the run was found by the keyword scan: the final-strategy
\* mapping holds no string and no other value that counts under a direction
\* field, and a summary field of it holds a keyword
FromKeywordFallback ==
    /\ final_direction # Unset
    /\ final_content.t = "dict"
    /\ \A i \in 1..Len(direction_fields) :
          HasKey(final_content, direction_fields[i]) =>
             /\ ~Truthy(Get(final_content, direction_fields[i]))
             /\ Get(final_content, direction_fields[i]).t # "str"
    /\ \E i \in 1..Len(summary_fields), k \in 1..Len(direction_keywords) :
          /\ HasKey(final_content, summary_fields[i])
          /\ Get(final_content, summary_fields[i]).t = "str"
          /\ HasChar(Get(final_content, summary_fields[i]).s, direction_keywords[k])

\* C40: a direction label obtained by the keyword fallback (one of 种草, 测评,
\* 推荐, 对比, 教程, 解析) is never a label of either branch's table, so in
\* every run whose direction comes from the keyword fallback the direction
\* processor makes no model invocation.
C40_KeywordDirectionMakesNoCall ==
    /\ Keywords \cap TableLabels = {}
    /\ FromKeywordFallback =>
          /\ final_direction \in Keywords
          /\ final_direction \notin TableLabels
          /\ calls["dispatch"] = 0
          /\ ~dispatched.call

\* a run that took its direction from a summary went through the evaluation
\* processor without a model call and on to persistence
C40_Witness ==
    /\ FromKeywordFallback
    /\ final_direction = JStr(<<"TuiJian">>)
    /\ dispatched.branch = "evaluation"
    /\ ~dispatched.call
    /\ pc = "Completed"

====
